---- MODULE Spec2Model ----
(***************************************************************************)
(* A model of kanzi's adaptive order-0 range coder (RangeEncoder and       *)
(* RangeDecoder, Go, with the Java decoder's findSymbol) and of the        *)
(* zero-length transform ZLT (Go).                                         *)
(*                                                                         *)
(* TLC's integers are 32 bits wide, the coder's registers are int64.  An   *)
(* int64 is therefore carried as its two's-complement bit pattern: a tuple *)
(* of 8 bytes, least significant first (w[1] is bits 0..7, w[7] is bits    *)
(* 48..55, w[8] is bits 56..63).  Go's arithmetic on int64 wraps silently, *)
(* which is arithmetic modulo 2^64 on these patterns.                      *)
(***************************************************************************)
EXTENDS Integers, Sequences, FiniteSets, TLC

VARIABLES
    enc,        \* the RangeEncoder object
    out,        \* bytes the encoder has written to its OutputBitStream
    flushes,    \* number of Flush() calls on the OutputBitStream
    sent,       \* history: the bytes given to EncodeByte, in order
    snaps,      \* history: snaps[k] = encoder registers and model that the k-th
                \* EncodeByte started from, the last entry those it left
    flushedAt,  \* history: {Len(sent)} when Dispose flushed, {} before
    disposed,   \* history: Dispose has been called
    dec,        \* the RangeDecoder object, NoDecoder before NewRangeDecoder
    inp,        \* the bytes of the decoder's InputBitStream
    moreFails,  \* HasMoreToRead() of that InputBitStream returns an error
    pos,        \* number of bytes of inp already read
    reads56,    \* number of ReadBits(56) calls made on the InputBitStream
    got,        \* history: the bytes returned by successful decodes
    calls,      \* number of calls made on the decoder
    asked,      \* history: number of symbols those calls asked for
    ret,        \* the result of the last encoder or decoder call
    fm,         \* a frequency model driven directly by updateFrequencies
    nUpd,       \* number of updateFrequencies calls applied to fm
    look,       \* the result of the last findSymbol call on fm
    zsrc,       \* ZLT: the source buffer (of Inverse under SpecInverse)
    zcap,       \* ZLT: len(dst) for Forward
    zfwd,       \* ZLT: the result of Forward(zsrc, dst)
    zinv,       \* ZLT: the result of Inverse (on the bytes Forward produced)
    zicap       \* ZLT: len(dst) for Inverse

vars == <<enc, out, flushes, sent, snaps, flushedAt, disposed, dec, inp, moreFails, pos,
          reads56, got, calls, asked, ret, fm, nUpd, look, zsrc, zcap, zfwd, zinv, zicap>>

rcVars   == <<enc, out, flushes, sent, snaps, flushedAt, disposed, dec, inp, moreFails, pos,
             reads56, got, calls, asked, ret>>
fmVars   == <<fm, nUpd, look>>
zltVars  == <<zsrc, zcap, zfwd, zinv, zicap>>

(***************************************************************************)
(* int64 arithmetic on 8-byte patterns.                                    *)
(***************************************************************************)
Limbs == 1..8

RECURSIVE AddLimbs(_, _, _, _)
AddLimbs(a, b, i, c) ==
    IF i > Len(a) THEN <<>>
    ELSE LET s == a[i] + b[i] + c
         IN  <<s % 256>> \o AddLimbs(a, b, i + 1, s \div 256)

\* a + b on int64 (wraps)
AddW(a, b) == AddLimbs(a, b, 1, 0)

RECURSIVE MulLimbs(_, _, _, _)
MulLimbs(a, k, i, c) ==
    IF i > Len(a) THEN <<>>
    ELSE LET s == a[i] * k + c
         IN  <<s % 256>> \o MulLimbs(a, k, i + 1, s \div 256)

\* a * k on int64 (wraps), 0 <= k < 2^22
MulW(a, k) == MulLimbs(a, k, 1, 0)

ZeroW == <<0, 0, 0, 0, 0, 0, 0, 0>>
OneW  == <<1, 0, 0, 0, 0, 0, 0, 0>>

NotW(a) == [i \in Limbs |-> 255 - a[i]]

\* -a on int64
NegW(a) == AddW(NotW(a), OneW)

\* a - b on int64 (wraps)
SubW(a, b) == AddW(a, NegW(b))

IsNegW(a) == a[8] >= 128

AbsW(a) == IF IsNegW(a) THEN NegW(a) ELSE a

\* a << 8 on int64: the top byte is shifted out
Shl8(a) == <<0, a[1], a[2], a[3], a[4], a[5], a[6], a[7]>>

RECURSIVE AndByte(_, _)
AndByte(x, y) ==
    IF x = 0 \/ y = 0 THEN 0
    ELSE (x % 2) * (y % 2) + 2 * AndByte(x \div 2, y \div 2)

RECURSIVE XorByte(_, _)
XorByte(x, y) ==
    IF x = 0 THEN y
    ELSE IF y = 0 THEN x
    ELSE ((x + y) % 2) + 2 * XorByte(x \div 2, y \div 2)

AndW(a, b) == [i \in Limbs |-> AndByte(a[i], b[i])]
XorW(a, b) == [i \in Limbs |-> XorByte(a[i], b[i])]

\* unsigned comparison of two equally long limb tuples: a <= b
RECURSIVE LeLimbs(_, _, _)
LeLimbs(a, b, i) ==
    IF i = 0 THEN TRUE
    ELSE IF a[i] # b[i] THEN a[i] < b[i]
    ELSE LeLimbs(a, b, i - 1)

LeU(a, b) == LeLimbs(a, b, Len(a))

\* a >= b on int64 (signed)
GeW(a, b) ==
    IF IsNegW(a) # IsNegW(b) THEN IsNegW(b)
    ELSE LeU(b, a)

\* unsigned a / k, 0 < k < 2^22: long division from the top byte down
RECURSIVE DivLimbs(_, _, _, _)
DivLimbs(a, k, i, r) ==
    IF i = 0 THEN <<>>
    ELSE LET n == r * 256 + a[i]
         IN  DivLimbs(a, k, i - 1, n % k) \o <<n \div k>>

\* a / k on int64, k > 0 (Go truncates toward zero)
DivW(a, k) ==
    IF IsNegW(a) THEN NegW(DivLimbs(NegW(a), k, 8, 0))
    ELSE DivLimbs(a, k, 8, 0)

\* the largest q in lo..hi with q * u <= d (unsigned, no wrap: 11 limbs)
RECURSIVE QSearch(_, _, _, _)
QSearch(d, u, lo, hi) ==
    IF lo = hi THEN lo
    ELSE LET m == (lo + hi + 1) \div 2
         IN  IF LeU(MulW(u \o <<0, 0, 0>>, m), d \o <<0, 0, 0>>)
             THEN QSearch(d, u, m, hi)
             ELSE QSearch(d, u, lo, m - 1)

\* the least int64, and -1
MinW    == <<0, 0, 0, 0, 0, 0, 0, 128>>
MinusOneW == <<255, 255, 255, 255, 255, 255, 255, 255>>

\* d / u on int64, u # 0, as a TLC integer saturated to -(cap+1)..cap+1.
\* The quotient feeds findSymbol only, which compares it with frequencies
\* <= cap: every quotient beyond cap takes the same branches as cap+1.
\* The least int64 divided by -1 wraps to itself, a negative quotient.
DivSat(d, u, cap) ==
    IF d = MinW /\ u = MinusOneW THEN 0 - (cap + 1)
    ELSE IF IsNegW(d) # IsNegW(u)
    THEN 0 - QSearch(AbsW(d), AbsW(u), 0, cap + 1)
    ELSE QSearch(AbsW(d), AbsW(u), 0, cap + 1)

(***************************************************************************)
(* Constants of the range coder.                                           *)
(***************************************************************************)
TOP       == <<0, 0, 0, 0, 0, 0, 1, 0>>
BOTTOM    == <<255, 255, 255, 255, 255, 0, 0, 0>>
MAX_RANGE == AddW(BOTTOM, OneW)
MASK      == <<255, 255, 255, 255, 255, 255, 255, 0>>
NB_SYMBOLS == 257
LAST      == NB_SYMBOLS - 1

\* (TOP << 8) - 1, the initial range of both coders
InitRange == SubW(Shl8(TOP), OneW)

(***************************************************************************)
(* The adaptive frequency model: baseFreq[0..16], deltaFreq[0..257].       *)
(***************************************************************************)
BaseIdx  == 0..(NB_SYMBOLS \div 16)
DeltaIdx == 0..NB_SYMBOLS

InitDeltaFreq == [i \in DeltaIdx |-> i % 16]
InitBaseFreq  == [i \in BaseIdx |-> i * 16]

\* cumulative frequency of symbol s
F(bf, df, s) == bf[s \div 16] + df[s]

\* the divisor of range: baseFreq[NB_SYMBOLS>>4] + deltaFreq[NB_SYMBOLS]
Total(bf, df) == bf[NB_SYMBOLS \div 16] + df[NB_SYMBOLS]

\* the encoder's base loop stopping one short of start
UpdBaseShort(bf, value) ==
    LET start == (value + 15) \div 16
    IN  [j \in BaseIdx |-> IF j > start THEN bf[j] + 1 ELSE bf[j]]

UpdBase(bf, value) ==
    LET start == (value + 15) \div 16
    IN  [j \in BaseIdx |-> IF j >= start THEN bf[j] + 1 ELSE bf[j]]

\* the encoder's delta loop run over the whole block of value
UpdDeltaBlock(df, value) ==
    LET start == (value + 15) \div 16
    IN  [j \in DeltaIdx |->
            IF j >= (start - 1) * 16 /\ j <= start * 16 - 1 THEN df[j] + 1
            ELSE df[j]]

UpdDelta(df, value) ==
    LET start == (value + 15) \div 16
    IN  [j \in DeltaIdx |->
            IF j >= value /\ j <= start * 16 - 1 THEN df[j] + 1 ELSE df[j]]

\* RangeEncoder.updateFrequencies
updateFrequencies(m, value) ==
    [baseFreq |-> UpdBase(m.baseFreq, value),
     deltaFreq |-> UpdDelta(m.deltaFreq, value)]

DecUpdBase(bf, value) ==
    LET start == (value + 15) \div 16
    IN  [j \in BaseIdx |-> IF j >= start THEN bf[j] + 1 ELSE bf[j]]

\* the decoder's delta loop stopping after deltaFreq[value]
DecUpdDeltaOne(df, value) ==
    LET start == (value + 15) \div 16
    IN  [j \in DeltaIdx |->
            IF j = value /\ j <= start * 16 - 1 THEN df[j] + 1 ELSE df[j]]

\* the decoder's delta loop stopping one short of value
DecUpdDeltaShort(df, value) ==
    LET start == (value + 15) \div 16
    IN  [j \in DeltaIdx |->
            IF j > value /\ j <= start * 16 - 1 THEN df[j] + 1 ELSE df[j]]

DecUpdDelta(df, value) ==
    LET start == (value + 15) \div 16
    IN  [j \in DeltaIdx |->
            IF j >= value /\ j <= start * 16 - 1 THEN df[j] + 1 ELSE df[j]]

\* RangeDecoder.updateFrequencies
decUpdateFrequencies(m, value) ==
    [baseFreq |-> DecUpdBase(m.baseFreq, value),
     deltaFreq |-> DecUpdDelta(m.deltaFreq, value)]

\* The value findSymbol yields when it indexes deltaFreq out of range (Go
\* panics, Java throws ArrayIndexOutOfBoundsException): no symbol.
OutOfRange == NB_SYMBOLS + 1

\* for value > 0 && freq < bfreq[value] { value-- }
RECURSIVE ScanBase(_, _, _)
ScanBase(bf, freq, value) ==
    IF value > 0 /\ freq < bf[value] THEN ScanBase(bf, freq, value - 1)
    ELSE value

\* the delta scan comparing with <= for <
RECURSIVE ScanDeltaEq(_, _, _, _)
ScanDeltaEq(df, freq, value, end) ==
    IF value >= end /\ freq <= df[value] THEN ScanDeltaEq(df, freq, value - 1, end)
    ELSE value

\* for value >= end && freq < dfreq[value] { value-- }
RECURSIVE ScanDelta(_, _, _, _)
ScanDelta(df, freq, value, end) ==
    IF value >= end /\ freq < df[value] THEN ScanDelta(df, freq, value - 1, end)
    ELSE value

\* findSymbol within the block found: freq is relative to the block's base,
\* end is the block's first symbol
FindInBlock(df, freq, end) ==
    IF freq > 0
    THEN IF end + 8 \notin DeltaIdx THEN OutOfRange
         ELSE IF freq < df[end + 8]
         THEN ScanDelta(df, freq,
                        IF freq < df[end + 4] THEN end + 3 ELSE end + 7, end)
         ELSE IF end + 12 \notin DeltaIdx THEN OutOfRange
         ELSE ScanDelta(df, freq,
                        IF freq < df[end + 12] THEN end + 11
                        ELSE IF end + 15 > NB_SYMBOLS THEN NB_SYMBOLS
                        ELSE end + 15,
                        end)
    ELSE end

\* freq -= bfreq[value]; value <<= 4; ...
FindInBase(bf, df, freq, blk) == FindInBlock(df, freq - bf[blk], blk * 16)

\* findSymbol from the block search on: shared by the Go and Java variants,
\* whose text is the same from `for value > 0 && ...` to the end.
FindFrom(bf, df, freq, value) == FindInBase(bf, df, freq, ScanBase(bf, freq, value))

\* RangeDecoder.findSymbol (Go): the first comparison is against
\* deltaFreq[len(baseFreq)/2]
findSymbol(bf, df, freq) ==
    LET half == (NB_SYMBOLS \div 16 + 1) \div 2
    IN  FindFrom(bf, df, freq,
                 IF freq < df[half] THEN half - 1 ELSE NB_SYMBOLS \div 16)

\* RangeDecoder.findSymbol (Java): the first comparison is against
\* baseFreq[baseFreq.length/2]
findSymbolJava(bf, df, freq) ==
    LET half == (NB_SYMBOLS \div 16 + 1) \div 2
    IN  FindFrom(bf, df, freq,
                 IF freq < bf[half] THEN half - 1 ELSE NB_SYMBOLS \div 16)

(***************************************************************************)
(* Bounds of the model.                                                    *)
(***************************************************************************)
MaxLen    == 2      \* bytes given to EncodeByte
MaxBlock  == 3      \* len(block) of a Decode call
MaxCalls  == 2      \* calls made on one decoder
MaxRenorm == 8      \* iterations of the encoder's renormalization loop followed

\* the byte values the encoder is fed: both ends of the alphabet, the first
\* symbol of the second 16-symbol block and the first of the middle block
SampleBytes == {0, 16, 128, 255}

(***************************************************************************)
(* RangeEncoder.                                                           *)
(***************************************************************************)
\* NewRangeEncoder
NewRangeEncoder ==
    [low |-> ZeroW, range_ |-> InitRange, flushed |-> FALSE, written |-> FALSE,
     baseFreq |-> InitBaseFreq, deltaFreq |-> InitDeltaFreq]

\* (this.low^(this.low+this.range_))&MASK >= TOP
TopDiffers(low, range) == GeW(AndW(XorW(low, AddW(low, range)), MASK), TOP)

\* uint64((this.low>>48)&0xFF)
TopByte(low) == low[7]

\* the forced range masked with MAX_RANGE instead of BOTTOM
NormalizeTop(low) == AndW(AndW(NegW(low), MASK), MAX_RANGE)

\* (-this.low & MASK) & BOTTOM
Normalize(low) == AndW(AndW(NegW(low), MASK), BOTTOM)

RECURSIVE EncLoopKeep(_, _, _, _)
RECURSIVE EncLoop(_, _, _, _)
\* the loop without this.range_ <<= 8
EncLoopKeep(low, range, bytes, n) ==
    IF TopDiffers(low, range) /\ GeW(range, MAX_RANGE)
    THEN [low |-> low, range_ |-> range, bytes |-> bytes, spin |-> FALSE]
    ELSE IF n = MaxRenorm
    THEN [low |-> low, range_ |-> range, bytes |-> bytes, spin |-> TRUE]
    ELSE LET r == IF TopDiffers(low, range) THEN Normalize(low) ELSE range
         IN  EncLoopKeep(Shl8(low), r, Append(bytes, TopByte(low)), n + 1)

\* The renormalization loop of EncodeByte; bytes are the WriteBits(.., 8)
\* calls in order.  spin: the loop was still running after MaxRenorm
\* iterations.
EncLoop(low, range, bytes, n) ==
    IF TopDiffers(low, range) /\ GeW(range, MAX_RANGE)
    THEN [low |-> low, range_ |-> range, bytes |-> bytes, spin |-> FALSE]
    ELSE IF n = MaxRenorm
    THEN [low |-> low, range_ |-> range, bytes |-> bytes, spin |-> TRUE]
    ELSE LET r == IF TopDiffers(low, range) THEN Normalize(low) ELSE range
         IN  EncLoop(Shl8(low), Shl8(r), Append(bytes, TopByte(low)), n + 1)

\* this.range_ /= total; this.low += symbolLow * this.range_;
\* this.range_ *= symbolHigh - symbolLow; then the loop
Narrow(low, r1, symbolLow, symbolHigh) ==
    EncLoop(AddW(low, MulW(r1, symbolLow)), MulW(r1, symbolHigh - symbolLow),
            <<>>, 0)

\* RangeEncoder.EncodeByte up to the frequency update: the new registers and
\* the bytes written
EncodeStep(e, b) ==
    Narrow(e.low, DivW(e.range_, Total(e.baseFreq, e.deltaFreq)),
           F(e.baseFreq, e.deltaFreq, b), F(e.baseFreq, e.deltaFreq, b + 1))

\* this.updateFrequencies(value + 1); this.written = true
EncodeFinish(e, b, st) ==
    [enc |-> IF st.spin THEN e
             ELSE [e EXCEPT !.low = st.low, !.range_ = st.range_,
                            !.baseFreq = UpdBase(e.baseFreq, b + 1),
                            !.deltaFreq = UpdDelta(e.deltaFreq, b + 1),
                            !.written = TRUE],
     bytes |-> st.bytes, spin |-> st.spin]

\* RangeEncoder.EncodeByte: the encoder after the call and the bytes written
\* (spin: the call never returns)
EncodeByte(e, b) == EncodeFinish(e, b, EncodeStep(e, b))

\* EntropyEncodeArray(this, block): EncodeByte on the bytes of block in
\* order from index i on; r is the result of EncodeByte on block[i] when
\* i < len(block).  n is the number of bytes encoded, after the registers
\* and model each of them left.
RECURSIVE EntropyEncodeArray(_, _, _, _, _, _)
EntropyEncodeNext(e, block, i, bytes, after, r) ==
    IF r.spin
    THEN [enc |-> e, bytes |-> bytes \o r.bytes, n |-> i, after |-> after,
          spin |-> TRUE]
    ELSE EntropyEncodeArray(r.enc, block, i + 1, bytes \o r.bytes,
                            Append(after, [low |-> r.enc.low,
                                           range_ |-> r.enc.range_,
                                           baseFreq |-> r.enc.baseFreq,
                                           deltaFreq |-> r.enc.deltaFreq]),
                            IF i + 1 < Len(block)
                            THEN EncodeByte(r.enc, block[i + 2]) ELSE r)

EntropyEncodeArray(e, block, i, bytes, after, r) ==
    IF i >= Len(block)
    THEN [enc |-> e, bytes |-> bytes, n |-> i, after |-> after, spin |-> FALSE]
    ELSE EntropyEncodeNext(e, block, i, bytes, after, r)

\* RangeEncoder.Encode: return EntropyEncodeArray(this, block)
Encode(e, block) ==
    EntropyEncodeArray(e, block, 0, <<>>, <<>>,
                       IF block = <<>> THEN [spin |-> FALSE]
                       ELSE EncodeByte(e, block[1]))

\* Drain with the loop bound one short: six bytes of low are written
RECURSIVE DrainShort(_, _, _)
DrainShort(low, bytes, i) ==
    IF i >= 6 THEN [low |-> low, bytes |-> bytes]
    ELSE DrainShort(Shl8(low), Append(bytes, TopByte(low)), i + 1)

\* for i := 0; i < 7; i++ { WriteBits((low>>48)&0xFF, 8); low <<= 8 }
RECURSIVE Drain(_, _, _)
Drain(low, bytes, i) ==
    IF i >= 7 THEN [low |-> low, bytes |-> bytes]
    ELSE Drain(Shl8(low), Append(bytes, TopByte(low)), i + 1)

\* Dispose that does not record the flush
DisposeAgain(e) ==
    IF e.written = TRUE /\ e.flushed = FALSE
    THEN [enc |-> [e EXCEPT !.low = Drain(e.low, <<>>, 0).low],
          bytes |-> Drain(e.low, <<>>, 0).bytes, flush |-> 1]
    ELSE [enc |-> e, bytes |-> <<>>, flush |-> 0]

\* RangeEncoder.Dispose: the encoder after the call, the bytes written and the
\* number of Flush() calls made
Dispose(e) ==
    IF e.written = TRUE /\ e.flushed = FALSE
    THEN LET d == Drain(e.low, <<>>, 0)
         IN  [enc |-> [e EXCEPT !.flushed = TRUE, !.low = d.low],
              bytes |-> d.bytes, flush |-> 1]
    ELSE [enc |-> e, bytes |-> <<>>, flush |-> 0]

\* what the lockstep claim compares: registers and frequency model
Snap(x) == [low |-> x.low, range_ |-> x.range_,
            baseFreq |-> x.baseFreq, deltaFreq |-> x.deltaFreq]

(***************************************************************************)
(* InputBitStream (kanzi.InputBitStream, outside this source tree): read   *)
(* from the interface's contract.  A read of n bits delivers the next n/8  *)
(* bytes, most significant first, and fails on insufficient data,          *)
(* consuming nothing.                                                      *)
(***************************************************************************)
\* ReadBits(8 * n) has enough data at position p
CanRead(s, p, n) == p + n <= Len(s)

\* the value of ReadBits(56) at position p, as an int64
Read56(s, p) == <<s[p + 7], s[p + 6], s[p + 5], s[p + 4], s[p + 3], s[p + 2],
                  s[p + 1], 0>>

\* HasMoreToRead(): (more, err)
HasMoreToRead(s, p) ==
    IF moreFails THEN [more |-> FALSE, err |-> "HasMoreToRead"]
    ELSE [more |-> p < Len(s), err |-> "nil"]

(***************************************************************************)
(* RangeDecoder.  Every operator takes the decoder d, the stream s and the *)
(* read position p and yields [dec, pos, ...]: the decoder and position    *)
(* after the call, with the call's results.                                *)
(* err is "nil" or the error returned; "panic" is a Go run-time panic      *)
(* (integer divide by zero, index out of range): the call does not return. *)
(***************************************************************************)
NoDecoder == [initialized |-> "none"]

\* NewRangeDecoder
NewRangeDecoder ==
    [code |-> ZeroW, low |-> ZeroW, range_ |-> InitRange, initialized |-> FALSE,
     baseFreq |-> InitBaseFreq, deltaFreq |-> InitDeltaFreq]

\* Initialize marking the decoder initialized only once the prefix is read
InitializeLate(d, s, p) ==
    IF d.initialized = TRUE
    THEN [dec |-> d, pos |-> p, err |-> "nil", read56 |-> 0]
    ELSE IF CanRead(s, p, 7)
    THEN [dec |-> [d EXCEPT !.initialized = TRUE, !.code = Read56(s, p)],
          pos |-> p + 7, err |-> "nil", read56 |-> 1]
    ELSE [dec |-> d, pos |-> p, err |-> "ReadBits", read56 |-> 1]

\* RangeDecoder.Initialize
Initialize(d, s, p) ==
    IF d.initialized = TRUE
    THEN [dec |-> d, pos |-> p, err |-> "nil", read56 |-> 0]
    ELSE IF CanRead(s, p, 7)
    THEN [dec |-> [d EXCEPT !.initialized = TRUE, !.code = Read56(s, p)],
          pos |-> p + 7, err |-> "nil", read56 |-> 1]
    ELSE [dec |-> [d EXCEPT !.initialized = TRUE],
          pos |-> p, err |-> "ReadBits", read56 |-> 1]

\* code masked to the working width after the shift
ShiftInMasked(code, read) == <<read, code[1], code[2], code[3], code[4], code[5],
                               code[6], 0>>

\* this.code = (this.code << 8) | int64(read)
ShiftIn(code, read) == <<read, code[1], code[2], code[3], code[4], code[5],
                         code[6], code[7]>>

\* The renormalization loop of decodeByte_.  The registers are assigned in
\* place, so a failed read leaves them as they were at the read.
RECURSIVE DecLoop(_, _, _, _, _)
RECURSIVE DecRead(_, _, _, _, _)
DecLoop(code, low, range, s, p) ==
    IF TopDiffers(low, range) /\ GeW(range, MAX_RANGE)
    THEN [code |-> code, low |-> low, range_ |-> range, pos |-> p, err |-> "nil"]
    ELSE DecRead(code, low,
                 IF TopDiffers(low, range) THEN Normalize(low) ELSE range, s, p)

\* read, err := ReadBits(8); code = (code << 8) | read; range <<= 8; low <<= 8
DecRead(code, low, r, s, p) ==
    IF CanRead(s, p, 1)
    THEN DecLoop(ShiftIn(code, s[p + 1]), Shl8(low), Shl8(r), s, p + 1)
    ELSE [code |-> code, low |-> low, range_ |-> r, pos |-> p, err |-> "ReadBits"]

\* decodeByte_ after the loop: the frequency update and the byte returned
DecodeFinish(d, value, st) ==
    IF st.err # "nil"
    THEN [dec |-> [d EXCEPT !.code = st.code, !.low = st.low,
                            !.range_ = st.range_],
          pos |-> st.pos, byte |-> 0, err |-> st.err]
    ELSE [dec |-> [d EXCEPT !.code = st.code, !.low = st.low,
                            !.range_ = st.range_,
                            !.baseFreq = DecUpdBase(d.baseFreq, value + 1),
                            !.deltaFreq = DecUpdDelta(d.deltaFreq, value + 1)],
          pos |-> st.pos, byte |-> value % 256, err |-> "nil"]

\* more, err := HasMoreToRead(); if err != nil { return 0, err };
\* if more == false { "End of bitstream" }; "Unknown symbol: 256"
TerminalErr(h) ==
    IF h.err # "nil" THEN h.err
    ELSE IF h.more = FALSE THEN "End of bitstream"
    ELSE "Unknown symbol"

\* decodeByte_ updating the frequencies of the terminal symbol before it fails
DecodeValueCounted(d, s, p, r1, value) ==
    IF value = OutOfRange
    THEN [dec |-> [d EXCEPT !.range_ = r1], pos |-> p, byte |-> 0,
          err |-> "panic"]
    ELSE IF value = LAST
    THEN [dec |-> [d EXCEPT !.range_ = r1,
                            !.baseFreq = DecUpdBase(d.baseFreq, value + 1),
                            !.deltaFreq = DecUpdDelta(d.deltaFreq, value + 1)],
          pos |-> p, byte |-> 0,
          err |-> TerminalErr(HasMoreToRead(s, p))]
    ELSE DecodeFinish(d, value,
             DecLoop(d.code,
                     AddW(d.low, MulW(r1, F(d.baseFreq, d.deltaFreq, value))),
                     MulW(r1, F(d.baseFreq, d.deltaFreq, value + 1)
                              - F(d.baseFreq, d.deltaFreq, value)),
                     s, p))

\* decodeByte_ from the symbol found on
DecodeValue(d, s, p, r1, value) ==
    IF value = OutOfRange
    THEN [dec |-> [d EXCEPT !.range_ = r1], pos |-> p, byte |-> 0,
          err |-> "panic"]
    ELSE IF value = LAST
    THEN [dec |-> [d EXCEPT !.range_ = r1], pos |-> p, byte |-> 0,
          err |-> TerminalErr(HasMoreToRead(s, p))]
    ELSE DecodeFinish(d, value,
             DecLoop(d.code,
                     AddW(d.low, MulW(r1, F(d.baseFreq, d.deltaFreq, value))),
                     MulW(r1, F(d.baseFreq, d.deltaFreq, value + 1)
                              - F(d.baseFreq, d.deltaFreq, value)),
                     s, p))

\* decodeByte_ from the division of range on: r1 is this.range_ / total
DecodeCount(d, s, p, r1) ==
    IF r1 = ZeroW
    THEN [dec |-> [d EXCEPT !.range_ = r1], pos |-> p, byte |-> 0,
          err |-> "panic"]
    ELSE DecodeValue(d, s, p, r1,
             findSymbol(d.baseFreq, d.deltaFreq,
                        DivSat(SubW(d.code, d.low), r1,
                               Total(d.baseFreq, d.deltaFreq))))

\* RangeDecoder.decodeByte_
decodeByte_(d, s, p) ==
    DecodeCount(d, s, p, DivW(d.range_, Total(d.baseFreq, d.deltaFreq)))

\* the result r of decodeByte_ with the number of ReadBits(56) calls that the
\* deferred initialization before it made
ByteWithReads(r, n56) ==
    [dec |-> r.dec, pos |-> r.pos, byte |-> r.byte, err |-> r.err, read56 |-> n56]

\* DecodeByte after its deferred initialization i
DecodeByteFrom(i, s) ==
    IF i.err # "nil"
    THEN [dec |-> i.dec, pos |-> i.pos, byte |-> 0, err |-> i.err,
          read56 |-> i.read56]
    ELSE ByteWithReads(decodeByte_(i.dec, s, i.pos), i.read56)

\* RangeDecoder.DecodeByte
DecodeByte(d, s, p) ==
    DecodeByteFrom(IF d.initialized = FALSE THEN Initialize(d, s, p)
                   ELSE [dec |-> d, pos |-> p, err |-> "nil", read56 |-> 0], s)

\* for i := range block { if block[i], err = this.decodeByte_(); err != nil
\* { return i, err } }; return len(block), nil
RECURSIVE DecodeBlock(_, _, _, _, _, _)
RECURSIVE DecodeStore(_, _, _, _, _)
DecodeBlock(d, s, p, block, i, n) ==
    IF i >= n
    THEN [dec |-> d, pos |-> p, block |-> block, n |-> n, err |-> "nil"]
    ELSE DecodeStore(decodeByte_(d, s, p), s, block, i, n)

\* Decode counting the failed symbol among those decoded
DecodeStoreCount(r, s, block, i, n) ==
    IF r.err # "nil"
    THEN [dec |-> r.dec, pos |-> r.pos, block |-> block, n |-> i + 1,
          err |-> r.err]
    ELSE DecodeBlock(r.dec, s, r.pos, Append(block, r.byte), i + 1, n)

DecodeStore(r, s, block, i, n) ==
    IF r.err # "nil"
    THEN [dec |-> r.dec, pos |-> r.pos, block |-> block, n |-> i, err |-> r.err]
    ELSE DecodeBlock(r.dec, s, r.pos, Append(block, r.byte), i + 1, n)

\* the result r of Decode's loop with the number of ReadBits(56) calls that the
\* deferred initialization before it made
BlockWithReads(r, n56) ==
    [dec |-> r.dec, pos |-> r.pos, block |-> r.block, n |-> r.n, err |-> r.err,
     read56 |-> n56]

\* Decode after its deferred initialization i
DecodeFrom(i, s, n) ==
    IF i.err # "nil"
    THEN [dec |-> i.dec, pos |-> i.pos, block |-> <<>>, n |-> 0, err |-> i.err,
          read56 |-> i.read56]
    ELSE BlockWithReads(DecodeBlock(i.dec, s, i.pos, <<>>, 0, n), i.read56)

\* RangeDecoder.Decode on a block of n bytes: block holds the bytes stored by
\* successful decodes
Decode(d, s, p, n) ==
    DecodeFrom(IF d.initialized = FALSE THEN Initialize(d, s, p)
               ELSE [dec |-> d, pos |-> p, err |-> "nil", read56 |-> 0], s, n)

(***************************************************************************)
(* The coder as a state machine: one encoder writing a stream, then one    *)
(* decoder constructed over the bytes written so far.                      *)
(***************************************************************************)
Ret(op, n, len, err, block) ==
    [op |-> op, n |-> n, len |-> len, err |-> err, block |-> block]

RcInit ==
    /\ enc = NewRangeEncoder
    /\ out = <<>>
    /\ flushes = 0
    /\ sent = <<>>
    /\ snaps = <<Snap(NewRangeEncoder)>>
    /\ flushedAt = {}
    /\ disposed = FALSE
    /\ dec = NoDecoder
    /\ inp = <<>>
    /\ moreFails = FALSE
    /\ pos = 0
    /\ reads56 = 0
    /\ got = <<>>
    /\ calls = 0
    /\ asked = 0
    /\ ret = Ret("new", 0, 0, "nil", <<>>)

\* the coder is not part of the specification
RcIdle ==
    /\ enc = <<>>
    /\ out = <<>>
    /\ flushes = 0
    /\ sent = <<>>
    /\ snaps = <<>>
    /\ flushedAt = {}
    /\ disposed = FALSE
    /\ dec = NoDecoder
    /\ inp = <<>>
    /\ moreFails = FALSE
    /\ pos = 0
    /\ reads56 = 0
    /\ got = <<>>
    /\ calls = 0
    /\ asked = 0
    /\ ret = Ret("idle", 0, 0, "nil", <<>>)

NoLook == [target |-> 0, go |-> 0, java |-> 0, done |-> FALSE]

\* the frequency model is not part of the specification
FmIdle ==
    /\ fm = <<>>
    /\ nUpd = 0
    /\ look = NoLook

\* the transform is not part of the specification
ZltIdle ==
    /\ zsrc = <<>>
    /\ zcap = 0
    /\ zicap = 0
    /\ zfwd = <<>>
    /\ zinv = <<>>

Init == RcInit /\ FmIdle /\ ZltIdle

EncoderReady ==
    /\ dec = NoDecoder
    /\ ret.err # "hang"

ApplyEncode(r, b) ==
    /\ enc' = r.enc
    /\ out' = out \o r.bytes
    /\ sent' = IF r.spin THEN sent ELSE Append(sent, b)
    /\ snaps' = IF r.spin THEN snaps
              ELSE Append([snaps EXCEPT ![Len(snaps)] = Snap(enc)], Snap(r.enc))
    /\ ret' = Ret("EncodeByte", Len(r.bytes), 0,
                  IF r.spin THEN "hang" ELSE "nil", <<>>)

\* enc.EncodeByte(b)
DoEncodeByte(b) ==
    /\ EncoderReady
    /\ Len(sent) < MaxLen
    /\ ApplyEncode(EncodeByte(enc, b), b)
    /\ UNCHANGED <<flushes, flushedAt, disposed, dec, inp, pos, reads56, got, calls,
                   asked>>
    /\ UNCHANGED <<moreFails, fmVars, zltVars>>

\* the blocks of at most n bytes
Blocks(n) == UNION {[1..k -> SampleBytes] : k \in 0..n}

ApplyEncodeBlock(r, block) ==
    /\ enc' = r.enc
    /\ out' = out \o r.bytes
    /\ sent' = sent \o SubSeq(block, 1, r.n)
    /\ snaps' = IF r.n = 0 THEN snaps
              ELSE [snaps EXCEPT ![Len(snaps)] = Snap(enc)] \o r.after
    /\ ret' = Ret("Encode", r.n, Len(block),
                  IF r.spin THEN "hang" ELSE "nil", <<>>)

\* enc.Encode(block)
DoEncode(block) ==
    /\ EncoderReady
    /\ ApplyEncodeBlock(Encode(enc, block), block)
    /\ UNCHANGED <<flushes, flushedAt, disposed, dec, inp, pos, reads56, got, calls,
                   asked>>
    /\ UNCHANGED <<moreFails, fmVars, zltVars>>

ApplyDispose(r) ==
    /\ enc' = r.enc
    /\ out' = out \o r.bytes
    /\ flushes' = flushes + r.flush
    /\ flushedAt' = IF r.flush > 0 THEN {Len(sent)} ELSE flushedAt
    /\ ret' = Ret("Dispose", Len(r.bytes), 0, "nil", <<>>)

\* enc.Dispose()
DoDispose ==
    /\ EncoderReady
    /\ ApplyDispose(Dispose(enc))
    /\ disposed' = TRUE
    /\ UNCHANGED <<sent, snaps, dec, inp, pos, reads56, got, calls, asked>>
    /\ UNCHANGED <<moreFails, fmVars, zltVars>>

\* NewRangeDecoder over a stream holding the bytes written so far
DoNewRangeDecoder ==
    /\ EncoderReady
    /\ dec' = NewRangeDecoder
    /\ inp' = out
    /\ moreFails' \in BOOLEAN
    /\ pos' = 0
    /\ ret' = Ret("NewRangeDecoder", 0, 0, "nil", <<>>)
    /\ UNCHANGED <<enc, out, flushes, sent, snaps, flushedAt, disposed, reads56, got,
                   calls, asked>>
    /\ UNCHANGED <<fmVars, zltVars>>

DecoderReady ==
    /\ dec # NoDecoder
    /\ calls < MaxCalls
    /\ ret.err # "panic"

ApplyInitialize(r) ==
    /\ dec' = r.dec
    /\ pos' = r.pos
    /\ reads56' = reads56 + r.read56
    /\ ret' = Ret("Initialize", 0, 0, r.err, <<>>)

\* dec.Initialize()
DoInitialize ==
    /\ DecoderReady
    /\ ApplyInitialize(Initialize(dec, inp, pos))
    /\ calls' = calls + 1
    /\ UNCHANGED <<enc, out, flushes, sent, snaps, flushedAt, disposed, inp, got,
                   asked>>
    /\ UNCHANGED <<moreFails, fmVars, zltVars>>

ApplyDecodeByte(r) ==
    /\ dec' = r.dec
    /\ pos' = r.pos
    /\ reads56' = reads56 + r.read56
    /\ got' = IF r.err = "nil" THEN Append(got, r.byte) ELSE got
    /\ ret' = Ret("DecodeByte", IF r.err = "nil" THEN 1 ELSE 0, 1, r.err,
                  IF r.err = "nil" THEN <<r.byte>> ELSE <<>>)

\* dec.DecodeByte()
DoDecodeByte ==
    /\ DecoderReady
    /\ ApplyDecodeByte(DecodeByte(dec, inp, pos))
    /\ calls' = calls + 1
    /\ asked' = asked + 1
    /\ UNCHANGED <<enc, out, flushes, sent, snaps, flushedAt, disposed, inp>>
    /\ UNCHANGED <<moreFails, fmVars, zltVars>>

ApplyDecode(r, n) ==
    /\ dec' = r.dec
    /\ pos' = r.pos
    /\ reads56' = reads56 + r.read56
    /\ got' = got \o r.block
    /\ ret' = Ret("Decode", r.n, n, r.err, r.block)

\* dec.Decode(block) with len(block) = n
DoDecode(n) ==
    /\ DecoderReady
    /\ ApplyDecode(Decode(dec, inp, pos, n), n)
    /\ calls' = calls + 1
    /\ asked' = asked + n
    /\ UNCHANGED <<enc, out, flushes, sent, snaps, flushedAt, disposed, inp>>
    /\ UNCHANGED <<moreFails, fmVars, zltVars>>

Next ==
    \/ \E b \in SampleBytes : DoEncodeByte(b)
    \/ \E block \in Blocks(MaxLen - Len(sent)) : DoEncode(block)
    \/ DoDispose
    \/ DoNewRangeDecoder
    \/ DoInitialize
    \/ DoDecodeByte
    \/ \E n \in 0..MaxBlock : DoDecode(n)

Spec == Init /\ [][Next]_vars

(***************************************************************************)
(* The coder on longer inputs: up to MaxSent bytes encoded, the stream     *)
(* decoded in one block.                                                   *)
(***************************************************************************)
MaxSent == 3        \* bytes given to EncodeByte

\* enc.EncodeByte(b)
EncodeMore(b) ==
    /\ EncoderReady
    /\ Len(sent) < MaxSent
    /\ ApplyEncode(EncodeByte(enc, b), b)
    /\ UNCHANGED <<flushes, flushedAt, disposed, dec, inp, pos, reads56, got, calls,
                   asked>>
    /\ UNCHANGED <<moreFails, fmVars, zltVars>>

CoderNext ==
    \/ \E b \in SampleBytes : EncodeMore(b)
    \/ \E block \in Blocks(MaxSent - Len(sent)) : DoEncode(block)
    \/ DoDispose
    \/ DoNewRangeDecoder
    \/ DoDecode(Len(sent))

SpecCoder == Init /\ [][CoderNext]_vars

(***************************************************************************)
(* The decoder on its own: a RangeDecoder over any stream of bytes, not    *)
(* only those an encoder writes.                                           *)
(***************************************************************************)
MaxExtra == 1       \* bytes of the stream after its 56-bit prefix

\* the stream bytes: all bits clear, the top bit only, and all bits set
StreamBytes == {0, 128, 255}

\* a stream of 7 + n bytes: a, b, b twice over, and c in the rest
Stream(a, b, c, n) == <<a, b, b, a, b, b>> \o [i \in 1..(n + 1) |-> c]

Streams ==
    {Stream(a, b, c, n) : a \in StreamBytes, b \in StreamBytes,
                          c \in StreamBytes, n \in 0..MaxExtra}

\* NewRangeDecoder over a stream
StreamInit ==
    /\ FmIdle
    /\ ZltIdle
    /\ enc = <<>>
    /\ out = <<>>
    /\ flushes = 0
    /\ sent = <<>>
    /\ snaps = <<>>
    /\ flushedAt = {}
    /\ disposed = FALSE
    /\ dec = NewRangeDecoder
    /\ inp \in Streams
    /\ moreFails \in BOOLEAN
    /\ pos = 0
    /\ reads56 = 0
    /\ got = <<>>
    /\ calls = 0
    /\ asked = 0
    /\ ret = Ret("NewRangeDecoder", 0, 0, "nil", <<>>)

StreamNext ==
    \/ DoInitialize
    \/ DoDecodeByte
    \/ \E n \in 0..MaxBlock : DoDecode(n)

SpecStream == StreamInit /\ [][StreamNext]_vars

(***************************************************************************)
(* The frequency model on its own: a model as NewRangeEncoder or           *)
(* NewRangeDecoder builds it, driven by its owner's updateFrequencies, and *)
(* the decoder's findSymbol applied to it.                                 *)
(***************************************************************************)
MaxUpdates == 2     \* updateFrequencies calls applied to the model

\* the coded bytes: the ends of the alphabet, of 16-symbol blocks and of the
\* two halves findSymbol starts its search in
FreqBytes == {0, 1, 7, 8, 15, 16, 17, 127, 128, 239, 240, 255}

FmInit ==
    /\ RcIdle
    /\ ZltIdle
    /\ \E o \in {"enc", "dec"} :
           fm = [owner |-> o,
                 baseFreq |-> IF o = "enc" THEN NewRangeEncoder.baseFreq
                              ELSE NewRangeDecoder.baseFreq,
                 deltaFreq |-> IF o = "enc" THEN NewRangeEncoder.deltaFreq
                               ELSE NewRangeDecoder.deltaFreq]
    /\ nUpd = 0
    /\ look = NoLook

\* this.updateFrequencies(b + 1), as EncodeByte calls it
FmUpdate(b) ==
    /\ fm.owner = "enc"
    /\ nUpd < MaxUpdates
    /\ fm' = [fm EXCEPT !.baseFreq = updateFrequencies(fm, b + 1).baseFreq,
                        !.deltaFreq = updateFrequencies(fm, b + 1).deltaFreq]
    /\ nUpd' = nUpd + 1
    /\ look' = NoLook
    /\ UNCHANGED <<rcVars, zltVars>>

\* this.updateFrequencies(b + 1), as decodeByte_ calls it
FmDecUpdate(b) ==
    /\ fm.owner = "dec"
    /\ nUpd < MaxUpdates
    /\ fm' = [fm EXCEPT !.baseFreq = decUpdateFrequencies(fm, b + 1).baseFreq,
                        !.deltaFreq = decUpdateFrequencies(fm, b + 1).deltaFreq]
    /\ nUpd' = nUpd + 1
    /\ look' = NoLook
    /\ UNCHANGED <<rcVars, zltVars>>

\* this.findSymbol(t), by the Go and by the Java decoder
FmLocate(t) ==
    /\ fm.owner = "dec"
    /\ look = NoLook
    /\ look' = [target |-> t,
                go |-> findSymbol(fm.baseFreq, fm.deltaFreq, t),
                java |-> findSymbolJava(fm.baseFreq, fm.deltaFreq, t),
                done |-> TRUE]
    /\ UNCHANGED <<fm, nUpd, rcVars, zltVars>>

FmNext ==
    \/ \E b \in FreqBytes : FmUpdate(b)
    \/ \E b \in FreqBytes : FmDecUpdate(b)
    \/ \E t \in 0..(Total(fm.baseFreq, fm.deltaFreq) - 1) : FmLocate(t)

SpecFreq == FmInit /\ [][FmNext]_vars

(***************************************************************************)
(* ZLT.  A buffer is the sequence of its bytes; dst is written strictly    *)
(* left to right from index 0, so the bytes written are a sequence and     *)
(* len(dst) a number.  Go's uint differences dstEnd-2 and dstEnd-log2 wrap *)
(* below zero to a value near 2^64 (2^32 on a 32-bit build): such a value  *)
(* is carried as the negative difference itself, and is above every index. *)
(***************************************************************************)
ZLT_MAX_RUN == 2147483647

TooSmall == "Output buffer is too small"

\* dstIdx >= x for uint, x a difference that may have wrapped
UGe(idx, x) == x >= 0 /\ idx >= x

\* for runLength>>log2 > 1 { log2++ }
RECURSIVE Log2From(_, _)
Log2From(runLength, log2) ==
    IF runLength \div (2 ^ log2) > 1 THEN Log2From(runLength, log2 + 1)
    ELSE log2

\* the bits of runLength written least significant first
RECURSIVE WriteBitsLsb(_, _, _, _)
WriteBitsLsb(runLength, log2, dst, dstEnd) ==
    IF log2 = 0 THEN [dst |-> dst, ok |-> TRUE]
    ELSE IF Len(dst) >= dstEnd THEN [dst |-> dst, ok |-> FALSE]
    ELSE WriteBitsLsb(runLength \div 2, log2 - 1, Append(dst, runLength % 2),
                      dstEnd)

\* for log2 > 0 { log2--; dst[dstIdx] = byte((runLength >> log2) & 1); dstIdx++ }
\* ok: every index was within dst
RECURSIVE WriteBits(_, _, _, _)
WriteBits(runLength, log2, dst, dstEnd) ==
    IF log2 = 0 THEN [dst |-> dst, ok |-> TRUE]
    ELSE IF Len(dst) >= dstEnd THEN [dst |-> dst, ok |-> FALSE]
    ELSE WriteBits(runLength, log2 - 1,
                   Append(dst, (runLength \div (2 ^ (log2 - 1))) % 2), dstEnd)

FwdResult(srcIdx, dst, err) ==
    [srcIdx |-> srcIdx, dstIdx |-> Len(dst), dst |-> dst, err |-> err]

\* the return statements of Forward, after the loop
FwdReturn(srcIdx, srcEnd, dst) ==
    FwdResult(srcIdx, dst, IF srcIdx < srcEnd THEN TooSmall ELSE "nil")

RECURSIVE FwdLoop(_, _, _, _, _, _)
RECURSIVE FwdRun(_, _, _, _, _, _, _)
RECURSIVE FwdBits(_, _, _, _, _, _)
RECURSIVE FwdLiteral(_, _, _, _, _)

\* the loop of Forward, at its head
FwdLoop(src, srcEnd, dstEnd, srcIdx, dst, runLength) ==
    IF ~(srcIdx < srcEnd /\ Len(dst) < dstEnd)
    THEN FwdReturn(srcIdx, srcEnd, dst)
    ELSE IF srcIdx >= Len(src)
    THEN FwdResult(srcIdx, dst, "panic")
    ELSE IF src[srcIdx + 1] = 0
    THEN IF srcIdx + 1 < srcEnd /\ runLength + 1 < ZLT_MAX_RUN
         THEN FwdLoop(src, srcEnd, dstEnd, srcIdx + 1, dst, runLength + 1)
         ELSE FwdRun(src, srcEnd, dstEnd, srcIdx + 1, dst, runLength + 1,
                     Log2From(runLength + 1, 1))
    ELSE IF runLength > 1
    THEN FwdRun(src, srcEnd, dstEnd, srcIdx, dst, runLength,
                Log2From(runLength, 1))
    ELSE FwdLiteral(src, srcEnd, dstEnd, srcIdx, dst)

\* if runLength > 1 { ... }: the length code
FwdRun(src, srcEnd, dstEnd, srcIdx, dst, runLength, log2) ==
    IF UGe(Len(dst), dstEnd - log2)
    THEN FwdReturn(srcIdx, srcEnd, dst)
    ELSE FwdBits(src, srcEnd, dstEnd, srcIdx,
                 WriteBits(runLength, log2, dst, dstEnd), 1)

FwdBits(src, srcEnd, dstEnd, srcIdx, w, runLength) ==
    IF w.ok THEN FwdLoop(src, srcEnd, dstEnd, srcIdx, w.dst, runLength)
    ELSE FwdResult(srcIdx, w.dst, "panic")

\* a non-zero byte with no run pending
FwdLiteral(src, srcEnd, dstEnd, srcIdx, dst) ==
    IF src[srcIdx + 1] >= 254
    THEN IF UGe(Len(dst), dstEnd - 2)
         THEN FwdReturn(srcIdx, srcEnd, dst)
         ELSE IF Len(dst) + 1 >= dstEnd
         THEN FwdResult(srcIdx, Append(dst, 255), "panic")
         ELSE FwdLoop(src, srcEnd, dstEnd, srcIdx + 1,
                      dst \o <<255, src[srcIdx + 1] - 254>>, 1)
    ELSE FwdLoop(src, srcEnd, dstEnd, srcIdx + 1,
                 Append(dst, src[srcIdx + 1] + 1), 1)

\* ZLT.Forward(src, dst) with this.size = size and len(dst) = dstEnd
Forward(size, src, dstEnd) ==
    FwdLoop(src, IF size = 0 THEN Len(src) ELSE size, dstEnd, 0, <<>>, 1)

InvResult(srcIdx, dst, err) ==
    [srcIdx |-> srcIdx, dstIdx |-> Len(dst), dst |-> dst, err |-> err]

\* the trailing zeros stopping one short of end
RECURSIVE FillZerosShort(_, _)
FillZerosShort(dst, end) ==
    IF Len(dst) + 1 < end THEN FillZerosShort(Append(dst, 0), end) ELSE dst

\* for dstIdx < end { dst[dstIdx] = 0; dstIdx++ }
RECURSIVE FillZeros(_, _)
FillZeros(dst, end) ==
    IF Len(dst) < end THEN FillZeros(Append(dst, 0), end) ELSE dst

\* Inverse after its loop: the trailing zeros and the return statements
InvReturn(srcIdx, srcEnd, dstEnd, dst, runLength) ==
    IF Len(dst) + runLength - 1 > dstEnd
    THEN InvResult(srcIdx, dst, TooSmall)
    ELSE InvResult(srcIdx, FillZeros(dst, Len(dst) + runLength - 1),
                   IF srcIdx < srcEnd THEN TooSmall ELSE "nil")

\* for { runLength = (runLength << 1) | int(val); srcIdx++;
\*       if srcIdx >= srcEnd { break }; val = src[srcIdx]; if val > 1 { break } }
RECURSIVE RunBits(_, _, _, _, _)
RunBits(src, srcEnd, srcIdx, val, runLength) ==
    IF srcIdx + 1 >= srcEnd
    THEN [srcIdx |-> srcIdx + 1, runLength |-> runLength * 2 + val, ok |-> TRUE]
    ELSE IF srcIdx + 1 >= Len(src)
    THEN [srcIdx |-> srcIdx + 1, runLength |-> runLength * 2 + val, ok |-> FALSE]
    ELSE IF src[srcIdx + 2] > 1
    THEN [srcIdx |-> srcIdx + 1, runLength |-> runLength * 2 + val, ok |-> TRUE]
    ELSE RunBits(src, srcEnd, srcIdx + 1, src[srcIdx + 2], runLength * 2 + val)

RECURSIVE InvLoop(_, _, _, _, _, _)
RECURSIVE InvRun(_, _, _, _, _)

\* the loop of Inverse, at its head
InvLoop(src, srcEnd, dstEnd, srcIdx, dst, runLength) ==
    IF ~(srcIdx < srcEnd /\ Len(dst) < dstEnd)
    THEN InvReturn(srcIdx, srcEnd, dstEnd, dst, runLength)
    ELSE IF runLength > 1
    THEN InvLoop(src, srcEnd, dstEnd, srcIdx, Append(dst, 0), runLength - 1)
    ELSE IF srcIdx >= Len(src)
    THEN InvResult(srcIdx, dst, "panic")
    ELSE IF src[srcIdx + 1] <= 1
    THEN InvRun(src, srcEnd, dstEnd, dst,
                RunBits(src, srcEnd, srcIdx, src[srcIdx + 1], 1))
    ELSE IF src[srcIdx + 1] = 255
    THEN IF srcIdx + 1 >= srcEnd
         THEN InvReturn(srcIdx + 1, srcEnd, dstEnd, dst, runLength)
         ELSE IF srcIdx + 1 >= Len(src)
         THEN InvResult(srcIdx + 1, dst, "panic")
         ELSE InvLoop(src, srcEnd, dstEnd, srcIdx + 2,
                      Append(dst, (254 + src[srcIdx + 2]) % 256), runLength)
    ELSE InvLoop(src, srcEnd, dstEnd, srcIdx + 1,
                 Append(dst, src[srcIdx + 1] - 1), runLength)

\* if val <= 1 { ...; continue }
InvRun(src, srcEnd, dstEnd, dst, r) ==
    IF r.ok THEN InvLoop(src, srcEnd, dstEnd, r.srcIdx, dst, r.runLength)
    ELSE InvResult(r.srcIdx, dst, "panic")

\* ZLT.Inverse(src, dst) with this.size = size and len(dst) = dstEnd
Inverse(size, src, dstEnd) ==
    InvLoop(src, IF size = 0 THEN Len(src) ELSE size, dstEnd, 0, <<>>, 1)

(***************************************************************************)
(* ZLT as a state machine: Forward on a source and a destination length,   *)
(* then Inverse on exactly the bytes Forward produced.                     *)
(***************************************************************************)
MaxSrc == 4         \* len(src) of Forward

\* the source bytes: zero, a plain literal, and the two escaped literals
ZBytes == {0, 5, 254, 255}

ZSources == UNION {[1..n -> ZBytes] : n \in 0..MaxSrc}

NoCall == [srcIdx |-> 0, dstIdx |-> 0, dst |-> <<>>, err |-> "none"]

ZltInit ==
    /\ RcIdle
    /\ FmIdle
    /\ zsrc \in ZSources
    /\ zcap \in 0..(2 * Len(zsrc) + 2)
    /\ zicap = 0
    /\ zfwd = NoCall
    /\ zinv = NoCall

\* NewZLT(0), then Forward(zsrc, dst) with len(dst) = zcap
ZForward ==
    /\ zfwd = NoCall
    /\ zfwd' = Forward(0, zsrc, zcap)
    /\ UNCHANGED <<zsrc, zcap, zicap, zinv, rcVars, fmVars>>

\* NewZLT(0), then Inverse(dst[0:produced], out) with len(out) = c
ZInverse(c) ==
    /\ zfwd.err \notin {"none", "panic"}
    /\ zinv = NoCall
    /\ zicap' = c
    /\ zinv' = Inverse(0, zfwd.dst, c)
    /\ UNCHANGED <<zsrc, zcap, zfwd, rcVars, fmVars>>

ZltNext ==
    \/ ZForward
    \/ \E c \in 0..(Len(zsrc) + 2) : ZInverse(c)

SpecZLT == ZltInit /\ [][ZltNext]_vars

(***************************************************************************)
(* Inverse on its own: any bytes as the source, not only those Forward     *)
(* writes.                                                                 *)
(***************************************************************************)
MaxCode == 3        \* len(src) of Inverse

\* the source bytes: the two run-length bits, a literal and the escape byte
CodeBytes == {0, 1, 6, 255}

InvInit ==
    /\ RcIdle
    /\ FmIdle
    /\ zsrc \in UNION {[1..n -> CodeBytes] : n \in 0..MaxCode}
    /\ zcap = 0
    /\ zicap = 0
    /\ zfwd = NoCall
    /\ zinv = NoCall

\* NewZLT(0), then Inverse(zsrc, out) with len(out) = c
InvCall(c) ==
    /\ zinv = NoCall
    /\ zicap' = c
    /\ zinv' = Inverse(0, zsrc, c)
    /\ UNCHANGED <<zsrc, zcap, zfwd, rcVars, fmVars>>

InvNext == \E c \in 0..(2 ^ (Len(zsrc) + 1)) : InvCall(c)

SpecInverse == InvInit /\ [][InvNext]_vars

(***************************************************************************)
(* ZLT on sources with one long run of zeros.  A source is held as its     *)
(* bytes before the run, the length of the run and its bytes after the     *)
(* run; Inverse counts its output in 64-bit words and lists it as          *)
(* stretches of equal bytes.  The loops are those of Forward and Inverse,  *)
(* with the iterations that only count a zero byte taken together.         *)
(***************************************************************************)
MaxEdge == 1        \* bytes before the run, and after it
RunSlack == 2       \* runs of 0..RunSlack and of ZLT_MAX_RUN-RunSlack..ZLT_MAX_RUN zeros
CodeRoom == 40      \* len(dst) given to Forward: a 30-byte run code and more

\* the bytes around the run: a plain literal and an escaped one
EdgeBytes == {5, 255}

Edges == UNION {[1..n -> EdgeBytes] : n \in 0..MaxEdge}

RunLengths == (0..RunSlack) \cup {ZLT_MAX_RUN - d : d \in 0..RunSlack}

\* the sources of at most 2^31-1 bytes
LongSources ==
    {s \in [lead : Edges, zeros : RunLengths, tail : Edges] :
        Len(s.lead) + Len(s.tail) <= ZLT_MAX_RUN - s.zeros}

\* len(src)
LongLen(s) == Len(s.lead) + s.zeros + Len(s.tail)

\* src[i]
LongAt(s, i) ==
    IF i < Len(s.lead) THEN s.lead[i + 1]
    ELSE IF i - Len(s.lead) < s.zeros THEN 0
    ELSE s.tail[i - Len(s.lead) - s.zeros + 1]

\* the zero bytes of the run from src[i] on
ZerosAhead(s, i) ==
    IF i >= Len(s.lead) /\ i - Len(s.lead) < s.zeros
    THEN s.zeros - (i - Len(s.lead)) ELSE 0

Min(a, b) == IF a <= b THEN a ELSE b

\* the zero bytes from src[srcIdx] on that the loop of Forward counts and
\* continues after: runLength++; srcIdx++; if srcIdx < srcEnd && runLength <
\* ZLT_MAX_RUN { continue }
Counted(s, srcEnd, srcIdx, runLength) ==
    Min(ZerosAhead(s, srcIdx),
        Min(srcEnd - srcIdx - 1, ZLT_MAX_RUN - runLength - 1))

RECURSIVE LongLoop(_, _, _, _, _, _)
RECURSIVE LongRun(_, _, _, _, _, _, _)
RECURSIVE LongBits(_, _, _, _, _, _)
RECURSIVE LongLiteral(_, _, _, _, _)

\* the loop of Forward, at its head
LongLoop(s, srcEnd, dstEnd, srcIdx, dst, runLength) ==
    IF ~(srcIdx < srcEnd /\ Len(dst) < dstEnd)
    THEN FwdReturn(srcIdx, srcEnd, dst)
    ELSE IF LongAt(s, srcIdx) = 0
    THEN IF Counted(s, srcEnd, srcIdx, runLength) >= 1
         THEN LongLoop(s, srcEnd, dstEnd,
                       srcIdx + Counted(s, srcEnd, srcIdx, runLength), dst,
                       runLength + Counted(s, srcEnd, srcIdx, runLength))
         ELSE LongRun(s, srcEnd, dstEnd, srcIdx + 1, dst, runLength + 1,
                      Log2From(runLength + 1, 1))
    ELSE IF runLength > 1
    THEN LongRun(s, srcEnd, dstEnd, srcIdx, dst, runLength,
                 Log2From(runLength, 1))
    ELSE LongLiteral(s, srcEnd, dstEnd, srcIdx, dst)

\* if runLength > 1 { ... }: the length code
LongRun(s, srcEnd, dstEnd, srcIdx, dst, runLength, log2) ==
    IF UGe(Len(dst), dstEnd - log2)
    THEN FwdReturn(srcIdx, srcEnd, dst)
    ELSE LongBits(s, srcEnd, dstEnd, srcIdx,
                  WriteBits(runLength, log2, dst, dstEnd), 1)

LongBits(s, srcEnd, dstEnd, srcIdx, w, runLength) ==
    IF w.ok THEN LongLoop(s, srcEnd, dstEnd, srcIdx, w.dst, runLength)
    ELSE FwdResult(srcIdx, w.dst, "panic")

\* a non-zero byte with no run pending
LongLiteral(s, srcEnd, dstEnd, srcIdx, dst) ==
    IF LongAt(s, srcIdx) >= 254
    THEN IF UGe(Len(dst), dstEnd - 2)
         THEN FwdReturn(srcIdx, srcEnd, dst)
         ELSE IF Len(dst) + 1 >= dstEnd
         THEN FwdResult(srcIdx, Append(dst, 255), "panic")
         ELSE LongLoop(s, srcEnd, dstEnd, srcIdx + 1,
                       dst \o <<255, LongAt(s, srcIdx) - 254>>, 1)
    ELSE LongLoop(s, srcEnd, dstEnd, srcIdx + 1,
                  Append(dst, LongAt(s, srcIdx) + 1), 1)

\* NewZLT(0).Forward(src, dst) with len(dst) = dstEnd
LongForward(s, dstEnd) == LongLoop(s, LongLen(s), dstEnd, 0, <<>>, 1)

\* the int64 of n, 0 <= n < 2^31
Wide(n) ==
    <<n % 256, (n \div 256) % 256, (n \div 65536) % 256, n \div 16777216,
      0, 0, 0, 0>>

\* a < b on uint64
LtU(a, b) == ~LeU(b, a)

MinU(a, b) == IF LeU(a, b) THEN a ELSE b

\* dst with n more bytes b: dst lists stretches of equal bytes
Emit(dst, b, n) ==
    IF n = ZeroW THEN dst
    ELSE IF dst # <<>> /\ dst[Len(dst)].b = b
    THEN [dst EXCEPT ![Len(dst)].n = AddW(dst[Len(dst)].n, n)]
    ELSE Append(dst, [b |-> b, n |-> n])

RECURSIVE EmitAll(_, _, _)
EmitAll(dst, bytes, i) ==
    IF i > Len(bytes) THEN dst
    ELSE EmitAll(Emit(dst, bytes[i], OneW), bytes, i + 1)

\* the source s as stretches of equal bytes
Stretches(s) ==
    EmitAll(Emit(EmitAll(<<>>, s.lead, 1), 0, Wide(s.zeros)), s.tail, 1)

WideResult(srcIdx, dst, dstIdx, err) ==
    [srcIdx |-> srcIdx, dstIdx |-> dstIdx, dst |-> dst, err |-> err]

\* end := dstIdx + uint(runLength) - 1
WideEnd(dstIdx, runLength) == SubW(AddW(dstIdx, runLength), OneW)

\* the trailing zeros up to end and the last two returns of Inverse
WideFill(srcIdx, srcEnd, dst, dstIdx, end) ==
    WideResult(srcIdx,
               IF LtU(dstIdx, end) THEN Emit(dst, 0, SubW(end, dstIdx)) ELSE dst,
               IF LtU(dstIdx, end) THEN end ELSE dstIdx,
               IF srcIdx < srcEnd THEN TooSmall ELSE "nil")

\* Inverse after its loop
WideReturn(srcIdx, srcEnd, dstEnd, dst, dstIdx, runLength) ==
    IF LtU(dstEnd, WideEnd(dstIdx, runLength))
    THEN WideResult(srcIdx, dst, dstIdx, TooSmall)
    ELSE WideFill(srcIdx, srcEnd, dst, dstIdx, WideEnd(dstIdx, runLength))

\* the index at which the loop that reads a run length stops, from index i
\* on: if srcIdx >= srcEnd { break }; val = src[srcIdx]; if val > 1 { break }
RECURSIVE RunStop(_, _, _)
RunStop(src, srcEnd, i) ==
    IF i >= srcEnd \/ src[i + 1] > 1 THEN i ELSE RunStop(src, srcEnd, i + 1)

\* bit p of the run length read from src[srcIdx..stop): runLength = 1, then
\* runLength = (runLength << 1) | int(val) for each byte, on an int of 64 bits
RunBit(src, srcIdx, stop, p) ==
    IF p < stop - srcIdx THEN src[stop - p]
    ELSE IF p = stop - srcIdx THEN 1
    ELSE 0

RunByte(src, srcIdx, stop, p) ==
    RunBit(src, srcIdx, stop, p) + 2 * RunBit(src, srcIdx, stop, p + 1)
        + 4 * RunBit(src, srcIdx, stop, p + 2)
        + 8 * RunBit(src, srcIdx, stop, p + 3)
        + 16 * RunBit(src, srcIdx, stop, p + 4)
        + 32 * RunBit(src, srcIdx, stop, p + 5)
        + 64 * RunBit(src, srcIdx, stop, p + 6)
        + 128 * RunBit(src, srcIdx, stop, p + 7)

\* the run length read from src[srcIdx..stop)
WideBits(src, srcIdx, stop) ==
    [srcIdx |-> stop,
     runLength |-> [i \in Limbs |-> RunByte(src, srcIdx, stop, 8 * (i - 1))]]

RECURSIVE WideLoop(_, _, _, _, _, _, _)
RECURSIVE WideZeros(_, _, _, _, _, _, _, _)
RECURSIVE WideRun(_, _, _, _, _, _)

\* the loop of Inverse, at its head
WideLoop(src, srcEnd, dstEnd, srcIdx, dst, dstIdx, runLength) ==
    IF ~(srcIdx < srcEnd /\ LtU(dstIdx, dstEnd))
    THEN WideReturn(srcIdx, srcEnd, dstEnd, dst, dstIdx, runLength)
    ELSE IF GeW(runLength, AddW(OneW, OneW))
    THEN WideZeros(src, srcEnd, dstEnd, srcIdx, dst, dstIdx, runLength,
                   MinU(SubW(runLength, OneW), SubW(dstEnd, dstIdx)))
    ELSE IF src[srcIdx + 1] <= 1
    THEN WideRun(src, srcEnd, dstEnd, dst, dstIdx,
                 WideBits(src, srcIdx, RunStop(src, srcEnd, srcIdx + 1)))
    ELSE IF src[srcIdx + 1] = 255
    THEN IF srcIdx + 1 >= srcEnd
         THEN WideReturn(srcIdx + 1, srcEnd, dstEnd, dst, dstIdx, runLength)
         ELSE WideLoop(src, srcEnd, dstEnd, srcIdx + 2,
                       Emit(dst, (254 + src[srcIdx + 2]) % 256, OneW),
                       AddW(dstIdx, OneW), runLength)
    ELSE WideLoop(src, srcEnd, dstEnd, srcIdx + 1,
                  Emit(dst, src[srcIdx + 1] - 1, OneW), AddW(dstIdx, OneW),
                  runLength)

\* if runLength > 1 { runLength--; dst[dstIdx] = 0; dstIdx++; continue }, for
\* the k iterations that follow each other
WideZeros(src, srcEnd, dstEnd, srcIdx, dst, dstIdx, runLength, k) ==
    WideLoop(src, srcEnd, dstEnd, srcIdx, Emit(dst, 0, k), AddW(dstIdx, k),
             SubW(runLength, k))

\* if val <= 1 { ...; continue }
WideRun(src, srcEnd, dstEnd, dst, dstIdx, r) ==
    WideLoop(src, srcEnd, dstEnd, r.srcIdx, dst, dstIdx, r.runLength)

\* NewZLT(0).Inverse(src, dst) with len(dst) = dstEnd, int and uint of 64 bits
WideInverse(src, dstEnd) ==
    WideLoop(src, Len(src), dstEnd, 0, <<>>, ZeroW, OneW)

\* len(dst) given to Inverse beyond the length of the source: 2^32
BigRoom == <<0, 0, 0, 0, 1, 0, 0, 0>>

WideNoCall == [srcIdx |-> 0, dstIdx |-> ZeroW, dst |-> <<>>, err |-> "none"]

LongInit ==
    /\ RcIdle
    /\ FmIdle
    /\ zsrc \in LongSources
    /\ zcap \in {CodeRoom \div 4, CodeRoom}
    /\ zicap = ZeroW
    /\ zfwd = NoCall
    /\ zinv = WideNoCall

\* NewZLT(0), then Forward(zsrc, dst) with len(dst) = zcap
LongForwardCall ==
    /\ zfwd.err = "none"
    /\ zfwd' = LongForward(zsrc, zcap)
    /\ UNCHANGED <<zsrc, zcap, zicap, zinv, rcVars, fmVars>>

\* NewZLT(0), then Inverse(dst[0:produced], out) with len(out) = c
LongInverseCall(c) ==
    /\ zfwd.err = "nil"
    /\ zinv.err = "none"
    /\ zicap' = c
    /\ zinv' = WideInverse(zfwd.dst, c)
    /\ UNCHANGED <<zsrc, zcap, zfwd, rcVars, fmVars>>

LongNext ==
    \/ LongForwardCall
    \/ \E c \in {Wide(LongLen(zsrc)), BigRoom} : LongInverseCall(c)

SpecLongRun == LongInit /\ [][LongNext]_vars

(***************************************************************************)
(* Properties of the coder, checked under Spec.                            *)
(***************************************************************************)
\* the decoder reads the stream of a whole encoding: every byte of a
\* non-empty sequence was encoded, then Dispose flushed it
CleanStream ==
    /\ dec # NoDecoder
    /\ sent # <<>>
    /\ flushedAt = {Len(sent)}

\* C1: round trip.  Over the stream written by EncodeByte for each byte of a
\* non-empty sequence S and then Dispose, a fresh decoder asked for at most
\* len(S) bytes (by DecodeByte or Decode, in any split) has met no error and
\* has returned exactly the bytes of S in order; asked for len(S) bytes it
\* has returned S.
RoundTrip ==
    CleanStream /\ asked <= Len(sent)
        => ret.err = "nil" /\ got = SubSeq(sent, 1, asked)

\* a sequence of two bytes came back whole
RoundTripWitness ==
    /\ CleanStream
    /\ Len(sent) >= 2
    /\ asked = Len(sent)
    /\ ret.op \in {"Decode", "DecodeByte"}
    /\ ret.err = "nil"
    /\ got = sent

\* the stream of S as the encoder left it: S may be empty, in which case
\* nothing was written
WholeStream ==
    /\ dec # NoDecoder
    /\ sent = <<>> \/ flushedAt = {Len(sent)}

\* C3: lockstep.  After a fresh decoder has decoded k <= len(S) symbols of
\* the stream produced from S, its baseFreq, deltaFreq, low and range are
\* those the encoder had after encoding the first k bytes of S.
Lockstep ==
    WholeStream /\ asked <= Len(sent) => Snap(dec) = snaps[asked + 1]

\* one symbol of two decoded: the decoder is where the encoder was between
\* the two bytes, which is neither its initial nor its final state
LockstepWitness ==
    /\ CleanStream
    /\ Len(sent) = 2
    /\ asked = 1
    /\ Len(got) = 1
    /\ Snap(dec) = snaps[2]
    /\ snaps[2] # snaps[1]
    /\ snaps[2] # snaps[3]

\* the seven bytes Dispose drains from low: (low >> 48) & 0xFF, low <<= 8
TopBytes(low) == <<low[7], low[6], low[5], low[4], low[3], low[2], low[1]>>

\* C8: Dispose is idempotent.  The first Dispose call after a byte has been
\* encoded writes exactly the 7 successive top bytes of low and flushes the
\* stream once; every Dispose call after it writes nothing and does not
\* flush.
DisposeOnce ==
    [][ret'.op = "Dispose" =>
          /\ sent # <<>> /\ flushedAt = {} =>
                 /\ out' = out \o TopBytes(enc.low)
                 /\ flushes' = flushes + 1
          /\ flushedAt # {} => out' = out /\ flushes' = flushes]_vars

\* a Dispose call that wrote nothing, after the one that wrote 7 bytes
DisposeOnceWitness ==
    /\ ret.op = "Dispose"
    /\ ret.n = 0
    /\ flushedAt # {}
    /\ flushes = 1
    /\ Len(out) >= 7

\* Decode's deferred initialization, from the state the call is made in
DecodeStart ==
    IF dec.initialized = FALSE THEN Initialize(dec, inp, pos)
    ELSE [dec |-> dec, pos |-> pos, err |-> "nil", read56 |-> 0]

\* the outcome r of one more decodeByte_ after the symbols of `before`
Attempt(before, r) ==
    [dec |-> r.dec, pos |-> r.pos,
     bytes |-> IF r.err = "nil" THEN Append(before.bytes, r.byte)
               ELSE before.bytes,
     err |-> r.err]

\* one more symbol after those of `before`, unless one of them failed
NextSymbol(before, s) ==
    IF before.err # "nil" THEN before
    ELSE Attempt(before, decodeByte_(before.dec, s, before.pos))

\* k symbols decoded one after the other from decoder d at position p of
\* stream s, up to the first that fails: the decoder and position the last
\* attempt left, the bytes decoded, and the error of the symbol that failed
RECURSIVE Symbols(_, _, _, _)
Symbols(d, s, p, k) ==
    IF k = 0
    THEN [dec |-> d, pos |-> p, bytes |-> <<>>, err |-> "nil"]
    ELSE NextSymbol(Symbols(d, s, p, k - 1), s)

\* the Decode call just made returned what `all` describes
Returned(all) ==
    /\ ret'.block = all.bytes
    /\ ret'.n = Len(all.bytes)
    /\ ret'.err = all.err
    /\ all.err = "nil" <=> ret'.n = ret'.len
    /\ dec' = all.dec
    /\ pos' = all.pos

\* C9: partial progress.  Decode(block) decodes symbols in index order.  If
\* symbol i is the first whose decoding fails it returns (i, err), block[0..i)
\* holds the i bytes decoded and the decoder is as the failed attempt left
\* it: no further symbol was attempted.  If none fails it returns
\* (len(block), nil).
PartialProgress ==
    [][\A n \in 0..MaxBlock :
           ret'.op = "Decode" /\ ret'.len = n /\ DecodeStart.err = "nil" =>
               Returned(Symbols(DecodeStart.dec, inp, DecodeStart.pos, n))]_vars

\* a Decode call that failed at a symbol after the first
PartialProgressWitness ==
    /\ ret.op = "Decode"
    /\ ret.err # "nil"
    /\ ret.n >= 1
    /\ ret.n < ret.len
    /\ Len(ret.block) = ret.n

\* C10: empty round trip.  A fresh encoder that encodes nothing and is
\* disposed, then a fresh decoder over the stream whose first call is Decode
\* on a zero-length block: the call returns count 0 and no error.
EmptyRoundTrip ==
    /\ dec # NoDecoder
    /\ sent = <<>>
    /\ disposed
    /\ calls = 1
    /\ ret.op = "Decode"
    /\ ret.len = 0
    => ret.n = 0 /\ ret.err = "nil"

\* C15: lazy initialization.  Constructing a RangeDecoder reads nothing; the
\* 56-bit prefix is read exactly once, by the first DecodeByte, Decode or
\* Initialize call, and no later call reads a 56-bit prefix again.
LazyInit ==
    dec # NoDecoder =>
        /\ calls = 0 => reads56 = 0 /\ pos = 0
        /\ calls >= 1 => reads56 = 1

\* two calls were made on a decoder and the prefix was read once, with
\* success
LazyInitWitness ==
    /\ dec # NoDecoder
    /\ calls >= 2
    /\ reads56 = 1
    /\ pos >= 7
    /\ ret.op \in {"Decode", "DecodeByte"}

(***************************************************************************)
(* Properties of the frequency model, checked under SpecFreq.              *)
(***************************************************************************)
\* F(s) <= F(s+1) for every symbol s in 0..256
FreqMonotone ==
    \A s \in 0..LAST :
        F(fm.baseFreq, fm.deltaFreq, s) <= F(fm.baseFreq, fm.deltaFreq, s + 1)

\* C6: monotonic frequencies.  In every state of the model reached by
\* updateFrequencies(b + 1) calls from the initial one, F(s) <= F(s+1) for
\* every s in 0..256, and each call increases the total F(257) by exactly 1.
MonotoneFrequencies ==
    /\ []FreqMonotone
    /\ [][nUpd' = nUpd + 1 =>
              Total(fm'.baseFreq, fm'.deltaFreq)
                  = Total(fm.baseFreq, fm.deltaFreq) + 1]_vars

\* the encoder's model after two updates with the same byte: that symbol's
\* frequency is 3 and the total has grown by 2
MonotoneFrequenciesWitness ==
    /\ fm.owner = "enc"
    /\ nUpd = 2
    /\ Total(fm.baseFreq, fm.deltaFreq) = NB_SYMBOLS + 2
    /\ \E s \in 0..(LAST - 1) :
           F(fm.baseFreq, fm.deltaFreq, s + 1) - F(fm.baseFreq, fm.deltaFreq, s) = 3

\* the frequency of symbol s: F(s+1) - F(s)
Freq(m, s) == F(m.baseFreq, m.deltaFreq, s + 1) - F(m.baseFreq, m.deltaFreq, s)

\* model m after this.updateFrequencies(b + 1) by its owner
Updated(m, b) ==
    IF m.owner = "enc" THEN updateFrequencies(m, b + 1)
    ELSE decUpdateFrequencies(m, b + 1)

\* model `after` is model `before` with F(s) one higher for s in b+1..257 and
\* unchanged for s in 0..b
ShiftedAbove(before, after, b) ==
    /\ \A s \in 0..NB_SYMBOLS :
           F(after.baseFreq, after.deltaFreq, s)
               = F(before.baseFreq, before.deltaFreq, s)
                     + (IF s > b THEN 1 ELSE 0)
    /\ \A s \in 0..LAST :
           Freq(after, s) = Freq(before, s) + (IF s = b THEN 1 ELSE 0)
    /\ Freq(after, LAST) = 1

\* C16: effect of an update.  updateFrequencies(b + 1) increases F(s) by
\* exactly 1 for every s in b+1..257 and leaves F(s) unchanged for s in 0..b:
\* the frequency of symbol b grows by 1, that of every other symbol stays,
\* and the terminal symbol 256 keeps frequency 1.  Checked for the update of
\* every reachable model by its owner, for every byte of FreqBytes.
UpdateEffect ==
    look = NoLook => \A b \in FreqBytes : ShiftedAbove(fm, Updated(fm, b), b)

\* the decoder's model after two updates, one of them with byte 255: the
\* terminal symbol starts one higher for each and still has frequency 1
UpdateEffectWitness ==
    /\ fm.owner = "dec"
    /\ nUpd = 2
    /\ Freq(fm, 255) = 2
    /\ F(fm.baseFreq, fm.deltaFreq, LAST) = LAST + 2
    /\ Freq(fm, LAST) = 1

\* baseFreq[i] <= baseFreq[i+1] for every i with both indexes valid
BaseMonotone == \A i \in 0..(NB_SYMBOLS \div 16 - 1) : fm.baseFreq[i] <= fm.baseFreq[i + 1]

\* C17 as stated: both arrays are non-decreasing in index, baseFreq[i] <=
\* baseFreq[i+1] and deltaFreq[i] <= deltaFreq[i+1] for all valid i.
ArraysMonotone ==
    /\ BaseMonotone
    /\ \A i \in 0..(NB_SYMBOLS - 1) : fm.deltaFreq[i] <= fm.deltaFreq[i + 1]

\* C17: in every reachable frequency-model state, the initial one included,
\* baseFreq is non-decreasing in index, and deltaFreq is non-decreasing in
\* index within each block of 16 indexes and is 0 at the first index of each
\* block.
BlockMonotone ==
    /\ BaseMonotone
    /\ \A i \in 0..(NB_SYMBOLS - 1) :
           (i + 1) % 16 # 0 => fm.deltaFreq[i] <= fm.deltaFreq[i + 1]
    /\ \A i \in 0..NB_SYMBOLS : i % 16 = 0 => fm.deltaFreq[i] = 0

\* a model updated twice whose deltaFreq falls from 17 at index 15 to 0 at
\* index 16
BlockMonotoneWitness ==
    /\ nUpd = 2
    /\ fm.deltaFreq[15] = 17
    /\ fm.deltaFreq[16] = 0
    /\ fm.baseFreq[1] = 18

\* symbol s owns the cumulative frequency t
Locates(s, t) ==
    /\ F(fm.baseFreq, fm.deltaFreq, s) <= t
    /\ t < F(fm.baseFreq, fm.deltaFreq, s + 1)

\* C7: inverse lookup.  For every target in [0, F(257)) findSymbol returns
\* the one symbol s in 0..256 with F(s) <= target < F(s+1), and the Go
\* variant and the Java variant return the same symbol.
InverseLookup ==
    look.done =>
        /\ look.go \in 0..LAST
        /\ \A s \in 0..LAST : Locates(s, look.target) <=> s = look.go
        /\ look.java = look.go

\* a lookup on an updated model whose target is at or above deltaFreq[8] and
\* below baseFreq[8]: the two variants start their search in different halves
InverseLookupWitness ==
    /\ look.done
    /\ nUpd >= 1
    /\ look.target >= fm.deltaFreq[8]
    /\ look.target < fm.baseFreq[8]
    /\ look.go = look.java
    /\ look.go % 16 # 0
    /\ Locates(look.go, look.target)

(***************************************************************************)
(* Properties of ZLT, checked under SpecZLT.                               *)
(***************************************************************************)
\* the number of zero bytes of src from index i on (1-based) up to the next
\* non-zero byte
RECURSIVE ZeroRun(_, _)
ZeroRun(src, i) ==
    IF i <= Len(src) /\ src[i] = 0 THEN 1 + ZeroRun(src, i + 1) ELSE 0

\* the length of the transform of src from index i on: a run of n zeros takes
\* the bits of n + 1 below its most significant bit, one byte each; 0xFE and
\* 0xFF take two bytes; any other byte takes one
RECURSIVE OutputLen(_, _)
OutputLen(src, i) ==
    IF i > Len(src) THEN 0
    ELSE IF src[i] = 0
    THEN Log2From(ZeroRun(src, i) + 1, 1) + OutputLen(src, i + ZeroRun(src, i))
    ELSE (IF src[i] >= 254 THEN 2 ELSE 1) + OutputLen(src, i + 1)

\* the number of bytes of code from index i on that are run-length bits
RECURSIVE BitRun(_, _)
BitRun(code, i) ==
    IF i <= Len(code) /\ code[i] <= 1 THEN 1 + BitRun(code, i + 1) ELSE 0

\* the number whose bits below the most significant are code[i..i+n-1]
RECURSIVE BitValue(_, _, _, _)
BitValue(code, i, n, v) ==
    IF n = 0 THEN v ELSE BitValue(code, i + 1, n - 1, 2 * v + code[i])

\* the length of the sequence that code, from index i on, is the transform of
RECURSIVE InputLen(_, _)
InputLen(code, i) ==
    IF i > Len(code) THEN 0
    ELSE IF code[i] <= 1
    THEN BitValue(code, i, BitRun(code, i), 1) - 1
             + InputLen(code, i + BitRun(code, i))
    ELSE IF code[i] = 255 THEN 1 + InputLen(code, i + 2)
    ELSE 1 + InputLen(code, i + 1)

\* C2: ZLT round trip.  With size = 0 and a destination larger than the
\* output, Forward consumes the whole of S without error, and Inverse on
\* exactly the bytes produced, into a destination larger than S, reproduces
\* S without error.  (Every zero run of the model's sources is far below
\* ZLT_MAX_RUN.)
ZltRoundTrip ==
    zfwd # NoCall /\ zcap > OutputLen(zsrc, 1) =>
        /\ zfwd.err = "nil"
        /\ zfwd.srcIdx = Len(zsrc)
        /\ zfwd.dstIdx = OutputLen(zsrc, 1)
        /\ zinv # NoCall /\ zicap > Len(zsrc) =>
               /\ zinv.err = "nil"
               /\ zinv.srcIdx = Len(zfwd.dst)
               /\ zinv.dstIdx = Len(zsrc)
               /\ zinv.dst = zsrc

\* a source with an isolated zero, both escaped literals and a final zero
\* run came back whole
ZltRoundTripWitness ==
    /\ Len(zsrc) = 4
    /\ zsrc[1] = 0 /\ zsrc[2] # 0 /\ zsrc[4] = 0
    /\ \E i \in 1..4 : zsrc[i] = 254
    /\ \E i \in 1..4 : zsrc[i] = 255
    /\ zcap > OutputLen(zsrc, 1)
    /\ zicap > Len(zsrc)
    /\ zinv.err = "nil"
    /\ zinv.dst = zsrc

\* C4: buffer too small.  Whenever Forward or Inverse is called with a
\* destination smaller than the output its source takes, the call, where it
\* returns, returns the 'Output buffer is too small' error: never nil after
\* dropping part of the output.
TooSmallReported ==
    /\ zfwd # NoCall /\ zfwd.err # "panic" /\ zcap < OutputLen(zsrc, 1) =>
           zfwd.err = TooSmall
    /\ zinv # NoCall /\ zinv.err # "panic" /\ zicap < InputLen(zfwd.dst, 1) =>
           zinv.err = TooSmall

\* C5: bounds safety.  For every source and every destination length,
\* Forward and Inverse never index the destination at a position >=
\* len(dst).  (With size = 0 the source is never indexed out of range, so a
\* panic of the model is an index of the destination.)
BoundsSafe ==
    /\ zfwd.err # "panic"
    /\ zinv.err # "panic"

\* the bits of n below its leading 1, most significant first
RECURSIVE BitsBelow(_)
BitsBelow(n) ==
    IF n <= 1 THEN <<>> ELSE Append(BitsBelow(n \div 2), n % 2)

\* the output format, from index i of src on: per maximal run of k zeros the
\* bits of k + 1 below its leading 1; per byte v >= 0xFE the pair 0xFF,
\* v - 0xFE; per other byte v the byte v + 1
RECURSIVE Format(_, _)
Format(src, i) ==
    IF i > Len(src) THEN <<>>
    ELSE IF src[i] = 0
    THEN BitsBelow(ZeroRun(src, i) + 1) \o Format(src, i + ZeroRun(src, i))
    ELSE IF src[i] >= 254 THEN <<255, src[i] - 254>> \o Format(src, i + 1)
    ELSE <<src[i] + 1>> \o Format(src, i + 1)

\* C13: Forward output format.  With a destination larger than the output,
\* Forward consumes all of S and produces exactly the concatenation, in
\* source order, of the run codes and literal codes of S.
ForwardFormat ==
    zfwd # NoCall /\ zcap > Len(Format(zsrc, 1)) =>
        /\ zfwd.err = "nil"
        /\ zfwd.srcIdx = Len(zsrc)
        /\ zfwd.dstIdx = Len(Format(zsrc, 1))
        /\ zfwd.dst = Format(zsrc, 1)

\* [0x00, 0x00, 0x05] gave [0x01, 0x06]
ForwardFormatWitness ==
    /\ zsrc = <<0, 0, 5>>
    /\ zfwd.err = "nil"
    /\ zfwd.dst = <<1, 6>>

(***************************************************************************)
(* Properties of Inverse on any source, checked under SpecInverse.         *)
(***************************************************************************)
\* code, read unit by unit from index i on, ends right after an escape byte
\* 0xFF: the operand of the escape is missing
RECURSIVE EndsInEscape(_, _)
EndsInEscape(code, i) ==
    IF i > Len(code) THEN FALSE
    ELSE IF code[i] = 255 THEN i = Len(code) \/ EndsInEscape(code, i + 2)
    ELSE EndsInEscape(code, i + 1)

\* C12: truncated unit.  If the source ends immediately after an escape
\* byte 0xFF, Inverse returns an error: it does not report success with the
\* literal dropped.
TruncatedEscape ==
    zinv # NoCall /\ EndsInEscape(zsrc, 1) => zinv.err # "nil"

(***************************************************************************)
(* Properties of the decoder over any stream, checked under SpecStream.    *)
(***************************************************************************)
\* value := this.findSymbol(count) of the decodeByte_ that decoder d is about
\* to run, r1 being this.range_ / total
FoundWith(d, r1) ==
    IF r1 = ZeroW THEN OutOfRange
    ELSE findSymbol(d.baseFreq, d.deltaFreq,
                    DivSat(SubW(d.code, d.low), r1,
                           Total(d.baseFreq, d.deltaFreq)))

Found(d) == FoundWith(d, DivW(d.range_, Total(d.baseFreq, d.deltaFreq)))

\* the symbols of `before` decoded without error and the next one is the
\* terminal symbol
TerminalNext(before) ==
    /\ before.err = "nil"
    /\ Found(before.dec) = LAST

\* the call just made stopped at the symbol after those of `before`: it
\* returned no byte for that symbol, and left the frequency tables and the
\* stream position as they were before that symbol
TerminalStop(before) ==
    /\ ret'.err # "nil"
    /\ ret'.n = Len(before.bytes)
    /\ ret'.block = before.bytes
    /\ got' = got \o before.bytes
    /\ dec'.baseFreq = before.dec.baseFreq
    /\ dec'.deltaFreq = before.dec.deltaFreq
    /\ pos' = before.pos

\* the stream at position p reports no more data to read
NoMoreData(p) ==
    /\ HasMoreToRead(inp, p).err = "nil"
    /\ HasMoreToRead(inp, p).more = FALSE

\* the error is one of the two conditions: end of stream if the stream
\* reports no more data, unknown symbol otherwise
EitherCondition(before) ==
    ret'.err = IF NoMoreData(before.pos) THEN "End of bitstream"
               ELSE "Unknown symbol"

\* the error is the one HasMoreToRead returned if it returned one, and one
\* of the two conditions otherwise
StreamErrorFirst(before) ==
    IF HasMoreToRead(inp, before.pos).err # "nil"
    THEN ret'.err = HasMoreToRead(inp, before.pos).err
    ELSE EitherCondition(before)

\* C14 as stated: whenever findSymbol returns the terminal symbol 256 for a
\* symbol that DecodeByte or Decode decodes, the call returns an error and no
\* byte for it, the error is "End of bitstream" if the stream reports no more
\* data and "Unknown symbol" otherwise, and the frequency model is not
\* updated.
TerminalEither ==
    [][\A k \in 0..(MaxBlock - 1) :
           /\ ret'.op \in {"Decode", "DecodeByte"}
           /\ k < ret'.len
           /\ DecodeStart.err = "nil"
           /\ TerminalNext(Symbols(DecodeStart.dec, inp, DecodeStart.pos, k))
           => /\ TerminalStop(Symbols(DecodeStart.dec, inp, DecodeStart.pos, k))
              /\ EitherCondition(Symbols(DecodeStart.dec, inp, DecodeStart.pos, k))]_vars

\* C14 amended: whenever findSymbol returns the terminal symbol 256 for a
\* symbol that DecodeByte or Decode decodes, the call returns an error and no
\* byte for it and the frequency model is not updated; the error is the one
\* HasMoreToRead returned if that call failed, and otherwise "End of
\* bitstream" if the stream reports no more data and "Unknown symbol" if it
\* reports more.
TerminalSymbol ==
    [][\A k \in 0..(MaxBlock - 1) :
           /\ ret'.op \in {"Decode", "DecodeByte"}
           /\ k < ret'.len
           /\ DecodeStart.err = "nil"
           /\ TerminalNext(Symbols(DecodeStart.dec, inp, DecodeStart.pos, k))
           => /\ TerminalStop(Symbols(DecodeStart.dec, inp, DecodeStart.pos, k))
              /\ StreamErrorFirst(Symbols(DecodeStart.dec, inp, DecodeStart.pos, k))]_vars

\* a Decode that stored a byte and then met the terminal symbol, on a stream
\* whose HasMoreToRead fails
TerminalSymbolWitness ==
    /\ ret.op = "Decode"
    /\ ret.err = "HasMoreToRead"
    /\ ret.n >= 1
    /\ moreFails

(***************************************************************************)
(* Properties of the registers, checked under Spec.                        *)
(***************************************************************************)
\* 0 <= w < 2^56 for the int64 w
Below56(w) == w[8] = 0

\* C18: working width.  In every reachable encoder and decoder state low and
\* range are within the 56-bit working width: 0 <= low < 2^56 and
\* 0 <= range < 2^56.
WorkingWidth ==
    /\ Below56(enc.low)
    /\ Below56(enc.range_)
    /\ dec # NoDecoder => Below56(dec.low) /\ Below56(dec.range_)

(***************************************************************************)
(* Properties of the renormalization loop, checked under SpecCoder.        *)
(***************************************************************************)
\* this.range_ / total, the unit width of the next EncodeByte of encoder e
Unit(e) == DivW(e.range_, Total(e.baseFreq, e.deltaFreq))

\* low and range of EncodeByte(b) on encoder e when its loop is entered
EntryLow(e, b) == AddW(e.low, MulW(Unit(e), F(e.baseFreq, e.deltaFreq, b)))

EntryRange(e, b) ==
    MulW(Unit(e), F(e.baseFreq, e.deltaFreq, b + 1) - F(e.baseFreq, e.deltaFreq, b))

\* The renormalization loop followed from (low, range): the values range
\* takes, in order (at entry, after each forced assignment, after each
\* shift), and the number of forced assignments made.
RECURSIVE LoopTrace(_, _, _, _, _)
LoopTrace(low, range, n, ranges, forced) ==
    IF (TopDiffers(low, range) /\ GeW(range, MAX_RANGE)) \/ n = MaxRenorm
    THEN [ranges |-> ranges, forced |-> forced]
    ELSE IF TopDiffers(low, range)
    THEN LoopTrace(Shl8(low), Shl8(Normalize(low)), n + 1,
                   ranges \o <<Normalize(low), Shl8(Normalize(low))>>,
                   forced + 1)
    ELSE LoopTrace(Shl8(low), Shl8(range), n + 1, Append(ranges, Shl8(range)),
                   forced)

\* the loop of EncodeByte(b) on encoder e
LoopOf(e, b) == LoopTrace(EntryLow(e, b), EntryRange(e, b), 0, <<EntryRange(e, b)>>, 0)

\* range is never 0 in the loop traced by tr
NeverZero(tr) == \A i \in 1..Len(tr.ranges) : tr.ranges[i] # ZeroW

\* MAX_RANGE <= w < 2^56
Floored(w) == GeW(w, MAX_RANGE) /\ Below56(w)

\* C19: range floor after renormalization.  Whenever EncodeByte or a
\* successful decodeByte_ has returned, MAX_RANGE <= range < 2^56; range is
\* never 0 at any point of the renormalization loop of the next EncodeByte;
\* and the next division of range by the total frequency yields a unit width
\* of at least 1.
RangeFloor ==
    /\ ret.err # "hang" => Floored(enc.range_)
    /\ dec # NoDecoder /\ ret.err = "nil" => Floored(dec.range_)
    /\ ret.err # "hang" =>
           /\ Unit(enc) # ZeroW
           /\ Below56(Unit(enc))
           /\ \A b \in SampleBytes : NeverZero(LoopOf(enc, b))

\* an EncodeByte whose loop made a forced assignment, decoded again
RangeFloorWitness ==
    /\ Len(sent) >= 1
    /\ LoopOf(snaps[Len(sent)], sent[Len(sent)]).forced >= 1
    /\ ret.op = "Decode"
    /\ ret.err = "nil"
    /\ got = sent

\* C20: renormalization terminates.  For every byte and every reachable
\* encoder state the loop of EncodeByte exits after finitely many iterations,
\* the forced assignment of range included: every EncodeByte call returns.
Terminates ==
    /\ ret.err # "hang"
    /\ \A b \in SampleBytes : EncodeStep(enc, b).spin = FALSE

\* an EncodeByte that returned after two forced assignments in its loop
TerminatesWitness ==
    /\ ret.op = "EncodeByte"
    /\ ret.err = "nil"
    /\ ret.n >= 2
    /\ LoopOf(snaps[Len(sent)], sent[Len(sent)]).forced >= 2

(***************************************************************************)
(* Properties of ZLT on long runs, checked under SpecLongRun.              *)
(***************************************************************************)
\* the source s as a sequence of bytes, for a short run
Expand(s) == s.lead \o [i \in 1..s.zeros |-> 0] \o s.tail

\* On short runs Forward and Inverse on the source held as lead, run and tail
\* return what Forward and Inverse on its bytes return.
LongAgrees ==
    zsrc.zeros <= RunSlack =>
        /\ zfwd.err # "none" => zfwd = Forward(0, Expand(zsrc), zcap)
        /\ zinv.err # "none" /\ zicap = Wide(LongLen(zsrc)) =>
               /\ zinv.err = Inverse(0, zfwd.dst, LongLen(zsrc)).err
               /\ zinv.srcIdx = Inverse(0, zfwd.dst, LongLen(zsrc)).srcIdx
               /\ zinv.dst = EmitAll(<<>>, Inverse(0, zfwd.dst, LongLen(zsrc)).dst, 1)

\* Inverse returned the source, whole
Restored ==
    /\ zinv.err = "nil"
    /\ zinv.srcIdx = Len(zfwd.dst)
    /\ zinv.dstIdx = Wide(LongLen(zsrc))
    /\ zinv.dst = Stretches(zsrc)

\* a run that stays below the cut, or ends at it, is restored
UncutRestored ==
    zinv.err # "none" /\ zsrc.zeros < ZLT_MAX_RUN => Restored

\* C11: ZLT round-trip at the maximum run length.  For a source whose run of
\* zeros is long enough that Forward's runLength reaches ZLT_MAX_RUN and the
\* run is cut there, the rest of it being emitted as a further run code
\* directly after the first, Inverse(Forward(S)) equals S.
MaxRunRoundTrip ==
    zinv.err # "none" /\ zsrc.zeros >= ZLT_MAX_RUN => Restored

(***************************************************************************)
(* Properties of the decoder on the encoder's stream, checked under        *)
(* SpecCoder.                                                              *)
(***************************************************************************)
\* count := (this.code - this.low) / this.range_ of the decodeByte_ that
\* decoder d is about to run, saturated beyond the total
Count(d) ==
    DivSat(SubW(d.code, d.low), Unit(d), Total(d.baseFreq, d.deltaFreq))

\* 0 <= code - low < range, count in [0, F(256)), and findSymbol does not
\* yield the terminal symbol, for the symbol decoded after those of `before`
Inside(before) ==
    /\ before.err = "nil"
    /\ ~IsNegW(SubW(before.dec.code, before.dec.low))
    /\ LtU(SubW(before.dec.code, before.dec.low), before.dec.range_)
    /\ Unit(before.dec) # ZeroW
    /\ Count(before.dec) >= 0
    /\ Count(before.dec) < F(before.dec.baseFreq, before.dec.deltaFreq, LAST)
    /\ Found(before.dec) \in 0..(LAST - 1)

\* C21: code stays inside the interval.  While a decoder decodes the stream
\* produced by the encoder from S, before each of the first len(S) symbol
\* decodes 0 <= code - low < range, so count = (code - low) / unitWidth is in
\* [0, F(256)) and findSymbol does not return the terminal symbol 256.
CodeInside ==
    CleanStream /\ calls = 0 =>
        /\ DecodeStart.err = "nil"
        /\ \A k \in 0..(Len(sent) - 1) :
               Inside(Symbols(DecodeStart.dec, inp, DecodeStart.pos, k))

\* a fresh decoder over the stream of three bytes, whose third symbol is
\* found from a low that has grown above the working width
CodeInsideWitness ==
    /\ CleanStream
    /\ calls = 0
    /\ Len(sent) = 3
    /\ ~Below56(Symbols(DecodeStart.dec, inp, DecodeStart.pos, 2).dec.low)
    /\ Found(Symbols(DecodeStart.dec, inp, DecodeStart.pos, 2).dec) = sent[3]

\* the iterations of the loop traced by tr: its shifts, one byte written each
Iterations(tr) == Len(tr.ranges) - 1 - tr.forced

\* the renormalization shifts the encoder made for the first n bytes of sent,
\* each byte's loop followed from the registers its EncodeByte started from
RECURSIVE ShiftsUpTo(_)
ShiftsUpTo(n) ==
    IF n = 0 THEN 0
    ELSE ShiftsUpTo(n - 1) + Iterations(LoopOf(snaps[n], sent[n]))

\* C22: byte accounting.  For a stream produced by encoding a non-empty S and
\* calling Dispose, the encoder has written exactly k + 7 bytes, k being the
\* number of renormalization shifts it made, and a decoder that has decoded
\* len(S) symbols has met no error and has read exactly 7 + k bytes, the
\* whole stream: it did not attempt to read past its end.
ByteAccounting ==
    /\ sent # <<>> /\ flushedAt = {Len(sent)} =>
           Len(out) = ShiftsUpTo(Len(sent)) + 7
    /\ CleanStream /\ calls = 1 =>
           /\ ret.err = "nil"
           /\ ret.n = Len(sent)
           /\ reads56 = 1
           /\ pos = 7 + ShiftsUpTo(Len(sent))
           /\ pos = Len(inp)

\* three bytes decoded from a stream of 7 bytes and those of at least two
\* shifts
ByteAccountingWitness ==
    /\ CleanStream
    /\ calls = 1
    /\ ret.op = "Decode"
    /\ Len(sent) = 3
    /\ ShiftsUpTo(3) >= 2
    /\ pos = Len(inp)

(***************************************************************************)
(* Decoding streams that no encoder produced, checked under SpecStream.    *)
(***************************************************************************)
\* the decoder has its 56-bit code and its last call left it usable
Loaded ==
    /\ dec # NoDecoder
    /\ dec.initialized
    /\ ret.err = "nil"
    /\ Unit(dec) # ZeroW

\* C23: corrupt-stream safety.  For every 56-bit initial code and every
\* following input bytes, each DecodeByte call returns a byte or an explicit
\* error, never a failed index into deltaFreq or baseFreq, and the count the
\* next symbol decode computes does not exceed F(256).
CorruptSafe ==
    /\ ret.op = "DecodeByte" => ret.err # "panic"
    /\ Loaded => /\ Count(dec) <= F(dec.baseFreq, dec.deltaFreq, LAST)
                 /\ Found(dec) # OutOfRange

(***************************************************************************)
(* The counts of a Forward that ran out of room, checked under SpecZLT.    *)
(***************************************************************************)
\* Inverse of the bytes Forward produced, into a destination with room for
\* the whole source and more
Decoded == Inverse(0, zfwd.dst, Len(zsrc) + 2)

\* C24: Forward's error counts are consistent.  Whenever Forward returns the
\* too-small error with counts (consumed, produced), Inverse of the produced
\* bytes yields exactly the consumed source prefix src[0..consumed): no
\* source byte is counted as consumed without being represented in the
\* output.
ConsistentCounts ==
    zfwd.err = TooSmall =>
        /\ zfwd.dstIdx = Len(zfwd.dst)
        /\ Decoded.err = "nil"
        /\ Decoded.dst = SubSeq(zsrc, 1, zfwd.srcIdx)

====
